---- MODULE Spec2Model ----
(***************************************************************************)
(* A model of the Open-Minions run orchestrator                            *)
(* (src/src/minions/orchestrator.py) with its collaborators: the git       *)
(* facade (tools/git_tools.py), the lint facade (tools/lint_tools.py) and  *)
(* the CLI pull-request creator (tools/pr_tools.py).                       *)
(*                                                                         *)
(* Python strings are sequences of one-character strings, so that lower(), *)
(* strip(), startswith(), endswith() and "in" are computed, not assumed.   *)
(* A value decoded by json.loads is a record [t, v, d]: t its Python type, *)
(* v its text (for scalars), d its mapping (for a dict).                   *)
(***************************************************************************)
EXTENDS Integers, Sequences, FiniteSets, TLC

\* ------------------------------------------------------------------ bounds

\* Responses with fenced blocks are drawn only in the first MaxToolTurns turns
\* of a run; the remaining turns get prose-only responses.
MaxToolTurns == 1

\* After them, at most MaxReadTurns turns read back a file the run has written.
MaxReadTurns == 1

\* orchestrator.py:97  max_turns = 20
max_turns == 20

\* ----------------------------------------------------------------- strings

S_edit_file == <<"e", "d", "i", "t", "_", "f", "i", "l", "e">>
S_read_file == <<"r", "e", "a", "d", "_", "f", "i", "l", "e">>
S_run_shell == <<"r", "u", "n", "_", "s", "h", "e", "l", "l">>
S_done == <<"d", "o", "n", "e">>
S_grep == <<"g", "r", "e", "p">>
S_a_py == <<"a", ".", "p", "y">>
S_b_js == <<"b", ".", "j", "s">>
S_blank == <<" ", " ">>
S_Wrote == <<"W", "r", "o", "t", "e", " ">>
S_Error == <<"E", "r", "r", "o", "r", ":", " ">>
S_path_required == <<"E", "r", "r", "o", "r", ":", " ", "p", "a", "t", "h", " ", "r", "e", "q", "u", "i", "r", "e", "d">>
S_command_required == <<"E", "r", "r", "o", "r", ":", " ", "c", "o", "m", "m", "a", "n", "d", " ", "r", "e", "q", "u", "i", "r", "e", "d">>
S_Done == <<"D", "o", "n", "e", ":", " ">>
S_Unknown_tool == <<"U", "n", "k", "n", "o", "w", "n", " ", "t", "o", "o", "l", ":", " ">>
S_Applied_diff == <<"A", "p", "p", "l", "i", "e", "d", " ", "d", "i", "f", "f", " ", "t", "o", " ">>
S_Error_diff == <<"E", "r", "r", "o", "r", " ", "a", "p", "p", "l", "y", "i", "n", "g", " ", "d", "i", "f", "f", ":", " ">>
S_diff_a == <<"-", "-", "-", " ", "a", "/">>
S_diff_git == <<"d", "i", "f", "f", " ", "-", "-", "g", "i", "t">>
S_exit == <<"e", "x", "i", "t", " ">>
S_py == <<".", "p", "y">>
S_js == <<".", "j", "s">>
S_ts == <<".", "t", "s">>
S_tsx == <<".", "t", "s", "x">>
S_dot == <<".">>
S_nl == <<"\n">>

UpperCase == <<"A", "B", "C", "D", "E", "F", "G", "H", "I", "J", "K", "L", "M",
               "N", "O", "P", "Q", "R", "S", "T", "U", "V", "W", "X", "Y", "Z">>
LowerCase == <<"a", "b", "c", "d", "e", "f", "g", "h", "i", "j", "k", "l", "m",
               "n", "o", "p", "q", "r", "s", "t", "u", "v", "w", "x", "y", "z">>
WhiteSpace == {" ", "\n", "\t"}

\* str.lower()
Lower(s) ==
    [i \in 1..Len(s) |->
        IF \E k \in 1..Len(UpperCase) : UpperCase[k] = s[i]
        THEN LowerCase[CHOOSE k \in 1..Len(UpperCase) : UpperCase[k] = s[i]]
        ELSE s[i]]

\* sub in s
Contains(s, sub) ==
    \E i \in 0..(Len(s) - Len(sub)) : SubSeq(s, i + 1, i + Len(sub)) = sub

\* s.startswith(p), s.endswith(p)
StartsWith(s, p) == Len(p) <= Len(s) /\ SubSeq(s, 1, Len(p)) = p
EndsWith(s, p) == Len(p) <= Len(s) /\ SubSeq(s, Len(s) - Len(p) + 1, Len(s)) = p

RECURSIVE LStrip(_)
LStrip(s) == IF s # <<>> /\ Head(s) \in WhiteSpace THEN LStrip(Tail(s)) ELSE s

RECURSIVE RStrip(_)
RStrip(s) ==
    IF s # <<>> /\ s[Len(s)] \in WhiteSpace THEN RStrip(SubSeq(s, 1, Len(s) - 1)) ELSE s

\* str.strip()
Strip(s) == RStrip(LStrip(s))

\* s[:n]
Prefix(s, n) == SubSeq(s, 1, IF Len(s) < n THEN Len(s) ELSE n)

RECURSIVE Join(_, _)
\* sep.join(parts)
Join(sep, parts) ==
    IF parts = <<>> THEN <<>>
    ELSE IF Len(parts) = 1 THEN parts[1]
    ELSE parts[1] \o sep \o Join(sep, Tail(parts))

\* -------------------------------------------------------------- JSON values

EmptyDict == <<>>

JStr(s) == [t |-> "str", v |-> s, d |-> EmptyDict]
JNum(s) == [t |-> "num", v |-> s, d |-> EmptyDict]
JNull == [t |-> "null", v |-> <<>>, d |-> EmptyDict]
JList(s) == [t |-> "list", v |-> s, d |-> EmptyDict]
JObj(m) == [t |-> "obj", v |-> <<>>, d |-> m]
\* the body of a fenced block that json.loads rejects
Malformed == [t |-> "malformed", v |-> <<>>, d |-> EmptyDict]

\* isinstance(x, dict), isinstance(x, str)
IsDict(x) == x.t = "obj"
IsStr(x) == x.t = "str"

\* bool(x)
Truthy(x) ==
    CASE x.t = "str" -> x.v # <<>>
      [] x.t = "num" -> x.v # <<"0">>
      [] x.t = "list" -> x.v # <<"[", "]">>
      [] x.t = "obj" -> DOMAIN x.d # {}
      [] OTHER -> FALSE

\* x.get(key, default) on a dict x
Get(x, key, default) == IF key \in DOMAIN x.d THEN x.d[key] ELSE default

\* str(x) as an f-string renders it: a str as itself, anything else by its text
Format(x) == x.v

\* ------------------------------------------------------- completion heuristic

done_signals ==
    << <<"t", "a", "s", "k", " ", "i", "s", " ", "c", "o", "m", "p", "l", "e", "t", "e">>,
       <<"t", "a", "s", "k", " ", "i", "s", " ", "d", "o", "n", "e">>,
       <<"c", "h", "a", "n", "g", "e", "s", " ", "a", "r", "e", " ", "c", "o", "m", "p", "l", "e", "t", "e">>,
       <<"a", "l", "l", " ", "d", "o", "n", "e">>,
       <<"i", "'", "v", "e", " ", "c", "o", "m", "p", "l", "e", "t", "e", "d">>,
       <<"i", " ", "h", "a", "v", "e", " ", "c", "o", "m", "p", "l", "e", "t", "e", "d">> >>

\* a completion test that compares without lowering the response
LooksDoneCaseSensitive(response) ==
    \E k \in 1..Len(done_signals) : Contains(response, done_signals[k])

\* Orchestrator._looks_done
_looks_done(response) ==
    LET lower == Lower(response)
    IN  \E k \in 1..Len(done_signals) : Contains(lower, done_signals[k])

\* ------------------------------------------------------------ model responses

(* A response of the model is its prose and its fenced blocks, in order of     *)
(* appearance.  A block has the tag after the opening fence, the characters of *)
(* its content (src; abbreviated to "{}" where the content decodes to a tool   *)
(* call, since the text is then never inspected) and the value json.loads      *)
(* gives for that content (body; Malformed when json.loads raises).            *)
Block(tag, src, body) == [tag |-> tag, src |-> src, body |-> body]
Response(prose, blocks) == [prose |-> prose, blocks |-> blocks]

\* the three backquotes of a fence, as one element
S_fence == <<"<fence>">>

RECURSIVE BlocksText(_)
BlocksText(blocks) ==
    IF blocks = <<>> THEN <<>>
    ELSE S_fence \o Head(blocks).tag \o S_nl \o Head(blocks).src
         \o S_fence \o BlocksText(Tail(blocks))

\* the text of the response, as the completion heuristic reads it
ResponseText(response) == response.prose \o BlocksText(response.blocks)

S_minion_tool == <<"m", "i", "n", "i", "o", "n", "_", "t", "o", "o", "l">>
S_json == <<"j", "s", "o", "n">>
S_python == <<"p", "y", "t", "h", "o", "n">>

(* The pattern of _parse_tool_calls,                                            *)
(*     ```(?:minion_tool|json)?\s*(\{[\s\S]*?\})\s*```                             *)
(* starts a match at an opening fence that has no tag or one of the two tags    *)
(* and is followed, after white space, by "{"; the match runs on to the first   *)
(* "}" that is followed, after white space, by a fence.  That fence is the      *)
(* closing fence of the block itself when the block's content ends with "}",    *)
(* and otherwise the closing fence of a later block: the match then spans the   *)
(* blocks in between and the scan goes on after it.                             *)

\* a match can start at the opening fence of b
FenceOpens(b) ==
    /\ b.tag \in {S_minion_tool, S_json, <<>>}
    /\ StartsWith(Strip(b.src), <<"{">>)
\* a match can end at the closing fence of b
FenceCloses(b) == EndsWith(Strip(b.src), <<"}">>)

\* the match is the content of b alone
FenceMatches(b) == FenceOpens(b) /\ FenceCloses(b)

\* the index of the first block at whose closing fence a match can end, 0 if
\* there is none
FirstClose(blocks) ==
    IF \E j \in DOMAIN blocks : FenceCloses(blocks[j])
    THEN CHOOSE j \in DOMAIN blocks :
            /\ FenceCloses(blocks[j])
            /\ \A k \in 1..(j - 1) : ~FenceCloses(blocks[k])
    ELSE 0

\* what json.loads gives for a match that starts in the first of blocks and
\* ends in the j-th: the value of the block for j = 1; a text that spans fences
\* does not decode (no response considered hides fences in a JSON string)
MatchValue(blocks, j) == IF j = 1 THEN blocks[1].body ELSE Malformed

\* orchestrator.py:309-312: the decoded match is kept if it is an object with
\* a name key
KeptCall(v) ==
    IF v.t # "malformed" /\ IsDict(v) /\ "name" \in DOMAIN v.d THEN <<v>> ELSE <<>>

\* a scan that takes every block on its own, whatever the blocks before it
RECURSIVE ScanEachBlock(_)
ScanEachBlock(blocks) ==
    IF blocks = <<>> THEN <<>>
    ELSE (IF FenceMatches(Head(blocks)) THEN KeptCall(Head(blocks).body) ELSE <<>>)
         \o ScanEachBlock(Tail(blocks))

\* orchestrator.py:307-313: re.finditer over the response
RECURSIVE ScanBlocks(_)
ScanBlocks(blocks) ==
    IF blocks = <<>> THEN <<>>
    ELSE IF FenceOpens(Head(blocks)) /\ FirstClose(blocks) > 0
    THEN KeptCall(MatchValue(blocks, FirstClose(blocks)))
         \o ScanBlocks(SubSeq(blocks, FirstClose(blocks) + 1, Len(blocks)))
    ELSE ScanBlocks(Tail(blocks))

\* Orchestrator._parse_tool_calls
_parse_tool_calls(response) == ScanBlocks(response.blocks)

\* ------------------------------------------------------------- tool execution

S_OSError == <<"O", "S", "E", "r", "r", "o", "r">>
S_AttributeError == <<"A", "t", "t", "r", "i", "b", "u", "t", "e", "E", "r", "r", "o", "r">>
S_TypeError == <<"T", "y", "p", "e", "E", "r", "r", "o", "r">>
S_TimeoutExpired == <<"T", "i", "m", "e", "o", "u", "t", "E", "x", "p", "i", "r", "e", "d">>
S_CalledProcessError == <<"C", "a", "l", "l", "e", "d", "P", "r", "o", "c", "e", "s", "s", "E", "r", "r", "o", "r">>
S_patched == <<"p", "a", "t", "c", "h", "e", "d">>
S_stdout == <<"o", "u", "t", "\n">>
Digits == <<"0", "1", "2", "3", "4", "5", "6", "7", "8", "9">>

\* orchestrator.py:344  text[:20_000]
ReadCap == 20000
\* orchestrator.py:361  output[:10_000]
ShellCap == 10000

\* What the operating system does with one tool call: "ok" (the file operation
\* or the subprocess completes), "fail" (the file operation raises OSError, the
\* shell command times out) or "patch_fail" (only the patch subprocess fails).
ToolEnvs == {"ok", "fail", "patch_fail"}

\* full.write_text(content, encoding="utf-8"): the tree with path holding the
\* characters of content ("\n" is written as os.linesep, which is "\n" here)
WriteFile(fs, path, content) ==
    [p \in DOMAIN fs \cup {path} |-> IF p = path THEN content ELSE fs[p]]

\* the completed process of subprocess.run(command, shell=True): "exit N" ends
\* with code N and prints nothing, any other command prints a line and ends 0
ShellRun(command) ==
    IF /\ StartsWith(command, S_exit)
       /\ Len(command) = Len(S_exit) + 1
       /\ \E k \in 1..Len(Digits) : Digits[k] = command[Len(command)]
    THEN [stdout |-> <<>>, stderr |-> <<>>,
          returncode |-> <<command[Len(command)]>>]
    ELSE [stdout |-> S_stdout, stderr |-> <<>>, returncode |-> <<"0">>]

Returned(result, fs) == [raised |-> FALSE, result |-> result, files |-> fs]
Raised(fs) == [raised |-> TRUE, result |-> <<>>, files |-> fs]

\* Orchestrator._apply_diff
_apply_diff(path, env, fs) ==
    IF env # "patch_fail"
    THEN Returned(S_Applied_diff \o path, WriteFile(fs, path, S_patched))
    ELSE Returned(S_Error_diff \o S_CalledProcessError, fs)

\* orchestrator.py:324-336  name == "edit_file"
ExecEditFile(path, content, env, fs) ==
    IF path = <<>> THEN Returned(S_path_required, fs)
    ELSE IF env = "fail" THEN Returned(S_Error \o S_OSError, fs)       \* mkdir, write
    ELSE IF ~IsStr(content) THEN Returned(S_Error \o S_AttributeError, fs)
    ELSE IF \/ StartsWith(Strip(content.v), S_diff_a)
            \/ StartsWith(Strip(content.v), S_diff_git)
         THEN _apply_diff(path, env, fs)
    ELSE Returned(S_Wrote \o path, WriteFile(fs, path, content.v))

\* orchestrator.py:343  full.read_text(encoding="utf-8", errors="replace"): the
\* file is opened in text mode with newline=None, which hands "\r\n" and a lone
\* "\r" to the reader as "\n"
RECURSIVE ReadText(_)
ReadText(chars) ==
    IF chars = <<>> THEN <<>>
    ELSE IF Head(chars) = "\r" /\ Len(chars) >= 2 /\ chars[2] = "\n"
    THEN <<"\n">> \o ReadText(Tail(Tail(chars)))
    ELSE IF Head(chars) = "\r" THEN <<"\n">> \o ReadText(Tail(chars))
    ELSE <<Head(chars)>> \o ReadText(Tail(chars))

\* orchestrator.py:338-346  name == "read_file"
ExecReadFile(path, env, fs) ==
    IF path = <<>> THEN Returned(S_path_required, fs)
    ELSE IF env = "fail" \/ path \notin DOMAIN fs
         THEN Returned(S_Error \o S_OSError, fs)
    ELSE Returned(Prefix(ReadText(fs[path]), ReadCap), fs)

\* a shell result without the exit-code text for silent commands
ShellOutputRaw(both, returncode) == both

\* orchestrator.py:360  (r.stdout + "\n" + r.stderr).strip() or f"exit {r.returncode}"
ShellOutput(both, returncode) == IF both # <<>> THEN both ELSE S_exit \o returncode
ShellResult(r) == ShellOutput(Strip(r.stdout \o S_nl \o r.stderr), r.returncode)

\* orchestrator.py:348-363  name == "run_shell"
ExecRunShell(command, env, fs) ==
    IF ~Truthy(command) THEN Returned(S_command_required, fs)
    ELSE IF ~IsStr(command) THEN Returned(S_Error \o S_TypeError, fs)
    ELSE IF env = "fail" THEN Returned(S_Error \o S_TimeoutExpired, fs)
    ELSE Returned(Prefix(ShellResult(ShellRun(command.v)), ShellCap), fs)

\* orchestrator.py:324-368: the dispatch on the tool name
Dispatch(name, path, params, env, fs) ==
    IF name = JStr(S_edit_file)
    THEN ExecEditFile(path, Get(params, "content", JStr(<<>>)), env, fs)
    ELSE IF name = JStr(S_read_file) THEN ExecReadFile(path, env, fs)
    ELSE IF name = JStr(S_run_shell)
    THEN ExecRunShell(Get(params, "command", JStr(<<>>)), env, fs)
    ELSE IF name = JStr(S_done)
    THEN Returned(S_Done \o Format(Get(params, "summary", JStr(<<>>))), fs)
    ELSE Returned(S_Unknown_tool \o Format(name), fs)

\* orchestrator.py:319  (params.get("path") or "").strip(), for a str or falsy path
StrippedPath(pathv) == IF Truthy(pathv) THEN Strip(pathv.v) ELSE <<>>

\* Orchestrator._execute_tool: the string it returns, or that it raised, and the
\* files of the working tree afterwards
_execute_tool(name, params, env, fs) ==
    IF ~IsDict(params) THEN Raised(fs)                \* params.get: AttributeError
    ELSE IF /\ Truthy(Get(params, "path", JNull))
            /\ ~IsStr(Get(params, "path", JNull))
         THEN Raised(fs)                                 \* .strip: AttributeError
    ELSE Dispatch(name, StrippedPath(Get(params, "path", JNull)), params, env, fs)

\* ---------------------------------------------------------------- lint facade

S_ruff_hdr == <<"r", "u", "f", "f", ":", "\n">>
S_eslint_hdr == <<"e", "s", "l", "i", "n", "t", ":", "\n">>
S_no_linters == <<"N", "o", " ", "l", "i", "n", "t", "e", "r", "s", " ", "r", "u", "n">>
S_passed == <<"p", "a", "s", "s", "e", "d">>
S_E501 == <<"E", "5", "0", "1">>

\* What a linter subprocess does: exits 0 ("pass"), exits non-zero ("fail"),
\* raises FileNotFoundError ("missing") or TimeoutExpired ("timeout"), or
\* raises another OSError ("oserror").
LinterOutcomes == {"pass", "fail", "missing", "timeout", "oserror"}

\* What `git diff --cached --name-only` does: prints the staged paths (none,
\* after a commit: "empty"; those of the files field: "files") or raises
\* ("raise": git absent, or the 30 s timeout).
StagedOutcomes == {"empty", "raise"}

LintEnvs == [ruff : LinterOutcomes, eslint : LinterOutcomes, staged : StagedOutcomes]

\* a linter runner for which a missing binary or a timeout is a failure
RunLinterStrict(outcome) ==
    CASE outcome = "pass" -> [raised |-> FALSE, ok |-> TRUE, out |-> S_passed]
      [] outcome \in {"fail", "missing", "timeout"} ->
            [raised |-> FALSE, ok |-> FALSE, out |-> S_E501]
      [] OTHER -> [raised |-> TRUE, ok |-> FALSE, out |-> <<>>]

\* LintTools._run_ruff and LintTools._run_eslint
_run_linter(outcome) ==
    CASE outcome = "pass" -> [raised |-> FALSE, ok |-> TRUE, out |-> S_passed]
      [] outcome = "fail" -> [raised |-> FALSE, ok |-> FALSE, out |-> S_E501]
      [] outcome \in {"missing", "timeout"} ->
            [raised |-> FALSE, ok |-> TRUE, out |-> <<>>]
      [] OTHER -> [raised |-> TRUE, ok |-> FALSE, out |-> <<>>]

\* LintTools.get_staged_files
get_staged_files(env) ==
    IF env.staged = "raise" THEN [raised |-> TRUE, files |-> <<>>]
    ELSE IF env.staged = "files" THEN [raised |-> FALSE, files |-> env.files]
    ELSE [raised |-> FALSE, files |-> <<>>]

\* the call ends with an exception: that of a linter subprocess ("linter") or
\* that of the staged-files query ("staged")
LintRaised(cause) ==
    [raised |-> TRUE, ok |-> FALSE, output |-> <<>>, ran |-> <<>>, cause |-> cause]

IsPy(p) == EndsWith(p, S_py)
IsJs(p) == EndsWith(p, S_js) \/ EndsWith(p, S_ts) \/ EndsWith(p, S_tsx)

\* lint_tools.py:58  "\n\n".join(outputs) if outputs else "No linters run ..."
LintOutput(outputs) ==
    IF outputs # <<>> THEN Join(<<"\n", "\n">>, outputs) ELSE S_no_linters

\* lint_tools.py:46-59: the verdict over the two buckets, ruff and eslint being
\* what the linters returned
LintVerdict(py_files, js_files, ruff, eslint) ==
    [raised |-> FALSE, cause |-> "none",
     ok |-> (py_files # <<>> => ruff.ok) /\ (js_files # <<>> => eslint.ok),
     output |-> LintOutput(
        (IF py_files # <<>> /\ ruff.out # <<>>
         THEN <<S_ruff_hdr \o ruff.out>> ELSE <<>>)
        \o (IF js_files # <<>> /\ eslint.out # <<>>
            THEN <<S_eslint_hdr \o eslint.out>> ELSE <<>>)),
     ran |-> (IF py_files # <<>>
              THEN <<[linter |-> "ruff", files |-> py_files]>> ELSE <<>>)
             \o (IF js_files # <<>>
                 THEN <<[linter |-> "eslint", files |-> js_files]>> ELSE <<>>)]

\* lint_tools.py:42-59
LintBuckets(py_files, js_files, env) ==
    IF py_files # <<>> /\ _run_linter(env.ruff).raised THEN LintRaised("linter")
    ELSE IF js_files # <<>> /\ _run_linter(env.eslint).raised THEN LintRaised("linter")
    ELSE LintVerdict(py_files, js_files, _run_linter(env.ruff), _run_linter(env.eslint))

\* lint_tools.py:36-37  if not paths: paths = ["."]
LintPaths(paths, env) ==
    IF paths = <<>>
    THEN LintBuckets(SelectSeq(<<S_dot>>, IsPy), SelectSeq(<<S_dot>>, IsJs), env)
    ELSE LintBuckets(SelectSeq(paths, IsPy), SelectSeq(paths, IsJs), env)

\* LintTools.run_relevant_linters; given is FALSE for paths=None.  ran lists the
\* linters invoked, each with the files handed to it.
run_relevant_linters(given, paths, env) ==
    IF given THEN LintPaths(paths, env)
    ELSE IF get_staged_files(env).raised THEN LintRaised("staged")
    ELSE LintPaths(get_staged_files(env).files, env)

\* ------------------------------------------------------------------ git facade

\* config.py: GitConfig.branch_prefix
branch_prefix == <<"m", "i", "n", "i", "o", "n", "/">>

\* GitTools.create_branch: the branch it returns
create_branch(name) == branch_prefix \o name

SlugChars == {"a", "b", "c", "d", "e", "f", "g", "h", "i", "j", "k", "l", "m",
              "n", "o", "p", "q", "r", "s", "t", "u", "v", "w", "x", "y", "z",
              "0", "1", "2", "3", "4", "5", "6", "7", "8", "9", "-"}

RECURSIVE LStripDash(_)
LStripDash(s) == IF s # <<>> /\ Head(s) = "-" THEN LStripDash(Tail(s)) ELSE s

RECURSIVE RStripDash(_)
RStripDash(s) ==
    IF s # <<>> /\ s[Len(s)] = "-" THEN RStripDash(SubSeq(s, 1, Len(s) - 1)) ELSE s

\* orchestrator.py:171
\* re.sub(r"[^a-z0-9-]", "-", task[:40].lower()).strip("-")[:30]
safe_name(task) ==
    LET low == Lower(Prefix(task, 40))
        sub == [i \in 1..Len(low) |-> IF low[i] \in SlugChars THEN low[i] ELSE "-"]
    IN  Prefix(RStripDash(LStripDash(sub)), 30)

\* f"minion: {task[:72]}"
commit_message(task) == <<"m", "i", "n", "i", "o", "n", ":", " ">> \o Prefix(task, 72)

\* what a git subprocess may exit with
ExitCodes == {0, 1, 128}

\* GitTools._run: subprocess.run(..., check=check) on a command that exits
\* with exit; check=True raises CalledProcessError on a non-zero exit
_run(exit, check) == [raised |-> check /\ exit # 0, exit |-> exit]

\* the git subcommands an operation of the facade runs, in order; paths is the
\* list given to stage_and_commit, branch the one given to push (<<>> for None)
GitCommands(op, arg) ==
    CASE op = "current_branch" -> <<"branch">>
      [] op = "create_branch" -> <<"checkout">>
      [] op = "stage_and_commit" ->
            (IF arg # <<>> THEN [k \in 1..Len(arg) |-> "add"] ELSE <<"add">>)
                \o <<"commit">>
      [] op = "push" -> (IF arg # <<>> THEN <<>> ELSE <<"branch">>) \o <<"push">>
      [] op = "status" -> <<"status">>
      [] op = "diff" -> <<"diff">>
      [] op = "has_changes" -> <<"status">>
      [] op = "fetch_latest" -> <<"fetch">>

\* the check argument an operation passes to _run: none passes any, so the
\* default check=True applies to all
GitCheck(op) == TRUE

\* the commands cmds run from the k-th on, exits[k] being what the k-th exits
\* with: the first that raises ends the operation
RECURSIVE RunGit(_, _, _, _)
RunGit(cmds, exits, check, k) ==
    IF k > Len(cmds)
    THEN [raised |-> FALSE, ran |-> Len(cmds)]
    ELSE IF _run(exits[k], check).raised
         THEN [raised |-> TRUE, ran |-> k]
         ELSE RunGit(cmds, exits, check, k + 1)

\* an operation of GitTools called with arg while git behaves as exits
GitOperation(op, arg, exits) == RunGit(GitCommands(op, arg), exits, GitCheck(op), 1)

\* ------------------------------------------------------------- pull requests

S_url_api == <<"h", "t", "t", "p", "s", ":", "/", "/", "g", "h", "/", "p", "u", "l", "l", "/", "1">>
S_url_cli == <<"h", "t", "t", "p", "s", ":", "/", "/", "g", "h", "/", "p", "u", "l", "l", "/", "2">>

\* What the hosted-API attempt does: "ok" (the pull request is created), "raise"
\* (any exception: the remote query, the URL parse, the request, the close) or
\* "no_remote" (git prints no remote URL).
ApiOutcomes == {"ok", "raise", "no_remote"}

\* What the gh subprocess does: exits 0 printing the URL ("ok"), exits 0
\* printing nothing ("ok_empty"), exits non-zero ("nonzero"), raises
\* FileNotFoundError ("absent") or TimeoutExpired ("timeout"), or raises
\* another OSError ("oserror").
CliOutcomes == {"ok", "ok_empty", "nonzero", "absent", "timeout", "oserror"}

PrNone == [raised |-> FALSE, some |-> FALSE, url |-> <<>>, api |-> "skipped",
           cli |-> "skipped"]

\* the environment of a pull-request step: what the hosted API and the gh
\* subprocess do when asked
PrEnv(api, cli) == [api |-> api, cli |-> cli]

\* pr_tools.create_pr; cli is what the gh subprocess does
create_pr(cli) ==
    CASE cli = "ok" -> [PrNone EXCEPT !.some = TRUE, !.url = Strip(S_url_cli \o S_nl),
                                      !.cli = cli]
      [] cli = "ok_empty" -> [PrNone EXCEPT !.some = TRUE, !.cli = cli]
      [] cli \in {"nonzero", "absent", "timeout"} -> [PrNone EXCEPT !.cli = cli]
      [] OTHER -> [PrNone EXCEPT !.raised = TRUE, !.cli = cli]

\* orchestrator.py:224  if github_token and state.branch_name
ApiTried(token, branch) == token # <<>> /\ branch # <<>>

\* a pull-request step that lets an exception of the hosted API out
CreatePrApiRaises(token, branch, api, cli) ==
    IF ApiTried(token, branch) /\ api = "ok"
    THEN [PrNone EXCEPT !.some = TRUE, !.url = S_url_api, !.api = api]
    ELSE IF ApiTried(token, branch) /\ api = "raise"
    THEN [PrNone EXCEPT !.raised = TRUE, !.api = api]
    ELSE [create_pr(cli) EXCEPT !.api = IF ApiTried(token, branch) THEN api
                                        ELSE "skipped"]

\* a pull-request step that goes on to the CLI creator after the hosted API
\* returned a URL
CreatePrCliAlways(token, branch, api, cli) ==
    IF ApiTried(token, branch) /\ api = "ok"
    THEN [PrNone EXCEPT !.some = TRUE, !.url = S_url_api, !.api = api, !.cli = cli]
    ELSE [create_pr(cli) EXCEPT !.api = IF ApiTried(token, branch) THEN api
                                        ELSE "skipped"]

\* Orchestrator._create_pr; token is <<>> for github_token=None, branch is
\* state.branch_name or "".  api and cli of the result tell what the API
\* attempt and the CLI creator did, "skipped" when not invoked.
_create_pr(token, branch, api, cli) ==
    IF ApiTried(token, branch) /\ api = "ok"
    THEN [PrNone EXCEPT !.some = TRUE, !.url = S_url_api, !.api = api]
    ELSE [create_pr(cli) EXCEPT !.api = IF ApiTried(token, branch) THEN api
                                        ELSE "skipped"]

\* ---------------------------------------------------------------- LLM client

\* LLMConfig: provider, fallback_provider and fallback_model; "" stands for a
\* fallback that is not configured (None or empty)
LLMConfig(provider, fallback_provider, fallback_model) ==
    [provider |-> provider, fallback_provider |-> fallback_provider,
     fallback_model |-> fallback_model]

\* a chain that takes the fallback provider even when no fallback model is set
ProvidersAnyFallback(config) ==
    <<config.provider>> \o
        (IF config.fallback_provider # "" THEN <<config.fallback_provider>> ELSE <<>>)

\* llm.py:48-50  providers = [primary] (+ fallback when provider and model are set)
providers(config) ==
    <<config.provider>> \o
        (IF config.fallback_provider # "" /\ config.fallback_model # ""
         THEN <<config.fallback_provider>> ELSE <<>>)

\* what a provider's API does when asked: it answers with a text, or it raises
Answers(text) == [ok |-> TRUE, text |-> <<text>>, error |-> "none"]
Fails(error) == [ok |-> FALSE, text |-> <<>>, error |-> error]

\* llm.py:55-64: one provider asked under env; a provider that is neither
\* anthropic nor openai raises ValueError("Unknown provider")
Attempt(provider, env) ==
    IF provider = "anthropic" THEN env.anthropic
    ELSE IF provider = "openai" THEN env.openai
    ELSE Fails("ValueError")

\* llm.py:52-68: the providers ps are tried in order; tried lists those asked
RECURSIVE TryProviders(_, _, _, _)
\* llm.py:56-66: a answered or raised
AfterAttempt(ps, env, a, tried) ==
    IF a.ok
    THEN [raised |-> FALSE, text |-> a.text, error |-> "none",
          tried |-> Append(tried, Head(ps))]
    ELSE TryProviders(Tail(ps), env, a.error, Append(tried, Head(ps)))
TryProviders(ps, env, last_error, tried) ==
    IF ps = <<>>
    THEN [raised |-> TRUE, text |-> <<>>, error |-> last_error, tried |-> tried]
    ELSE AfterAttempt(ps, env, Attempt(Head(ps), env), tried)

\* LLMClient.complete; raise last_error or RuntimeError("No LLM provider available")
complete(config, env) == TryProviders(providers(config), env, "RuntimeError", <<>>)

\* what a provider's streaming API does when asked: it yields chunks and ends,
\* or it yields chunks and then raises
Streams(chunks) == [chunks |-> chunks, error |-> "none"]
Breaks(chunks, error) == [chunks |-> chunks, error |-> error]

\* llm.py:122-129: one provider asked under env; for a provider that is
\* neither anthropic nor openai no branch is taken and the loop goes on
StreamAttempt(provider, env) ==
    IF provider = "anthropic" THEN env.anthropic
    ELSE IF provider = "openai" THEN env.openai
    ELSE Breaks(<<>>, "unknown")

\* llm.py:120-132: the providers ps are asked in order; yielded are the chunks
\* handed to the caller so far.  A provider that raises is passed over, and
\* after the last one RuntimeError("No LLM provider available for streaming")
\* is raised.
RECURSIVE StreamProviders(_, _, _, _)
AfterStream(ps, env, a, yielded, tried) ==
    IF a.error = "none"
    THEN [raised |-> FALSE, error |-> "none", chunks |-> yielded \o a.chunks,
          tried |-> Append(tried, Head(ps))]
    ELSE StreamProviders(Tail(ps), env, yielded \o a.chunks, Append(tried, Head(ps)))
StreamProviders(ps, env, yielded, tried) ==
    IF ps = <<>>
    THEN [raised |-> TRUE, error |-> "RuntimeError", chunks |-> yielded,
          tried |-> tried]
    ELSE AfterStream(ps, env, StreamAttempt(Head(ps), env), yielded, tried)

\* LLMClient.stream, consumed to its end
stream(config, env) == StreamProviders(providers(config), env, <<>>, <<>>)

\* ------------------------------------------------------------------- the run

VARIABLES
    pc,              \* where run() stands: "init", "loop", "git", "create_branch",
                     \* "commit", "post_lint", "push", "pr", "returned", "raised"
    task,            \* run(task, ...)
    llm_config,      \* the LLMConfig the orchestrator's client was built with
    create_pr_after, \* run(..., create_pr_after, ...)
    github_token,    \* run(..., github_token, ...); <<>> for None
    turn,            \* iterations of the agent loop begun
    llm_calls,       \* completions requested from the LLM client
    messages,        \* RunState.messages
    actions,         \* RunState.actions
    branch_name,     \* RunState.branch_name; <<>> for None
    pr_url,          \* RunState.pr_url; <<>> for None
    ci_round,        \* RunState.ci_round
    done,            \* RunState.done
    files,           \* the files of the working tree that the tools wrote
    notified,        \* the records handed to on_action, in order
    phases,          \* the names handed to on_phase, in order
    log,             \* the calls made to the git facade, the lint facade and
                     \* the pull-request creators, in order
    last,            \* what the latest iteration of the agent loop did
    llm,             \* the latest LLMClient.complete call: the providers'
                     \* behaviour and what the call did
    unit,            \* the latest call made to a facade on its own
    host             \* the hosting layers: the runs they started, the working
                     \* trees the runs share and the commits made in them

vars == <<pc, task, llm_config, create_pr_after, github_token, turn, llm_calls,
          messages, actions, branch_name, pr_url, ci_round, done, files, notified,
          phases, log, last, llm, unit, host>>

S_task_fix == <<"F", "i", "x", " ", "l", "o", "g", "i", "n", " ", "b", "u", "g", "!", "!">>
S_tok == <<"t", "o", "k">>

Tasks == {S_task_fix}
Tokens == {<<>>, S_tok}

NoTurn == [turn |-> 0, msgs_before |-> 0, acts_before |-> 0, notes_before |-> 0,
           log_before |-> 0, invoked |-> 0,
           lint_called |-> FALSE, lint_paths |-> <<>>, lint_ok |-> "none",
           exit |-> "none"]

\* the configurations of the LLM client: no fallback, a full fallback, a
\* fallback provider without a model, and a primary provider that is unknown
NoFallback == LLMConfig("anthropic", "", "")
WithFallback == LLMConfig("anthropic", "openai", "gpt")
HalfFallback == LLMConfig("anthropic", "openai", "")
UnknownPrimary == LLMConfig("other", "openai", "gpt")

\* the runs considered: pull requests and tokens vary under one client
\* configuration, client configurations under one kind of run
RunInputs ==
    {[config |-> NoFallback, pr |-> TRUE, token |-> t] : t \in Tokens}
    \cup {[config |-> c, pr |-> FALSE, token |-> <<>>] :
              c \in {NoFallback, WithFallback, HalfFallback, UnknownPrimary}}

NoLLM == [env |-> [anthropic |-> Fails("none"), openai |-> Fails("none")],
          out |-> [raised |-> FALSE, text |-> <<>>, error |-> "none", tried |-> <<>>]]
NoUnit == [fn |-> "none"]
\* web.py:39  runs = {}; no task scheduled, the working trees clean
Repos == {"repo1", "repo2"}
NoHost == [runs |-> <<>>, tree |-> [r \in Repos |-> {}], commits |-> <<>>]

\* RunState(task=task, repo_root=...) and the state before run() is called
Init ==
    /\ pc = "init"
    /\ task \in Tasks
    /\ \E i \in RunInputs :
          /\ llm_config = i.config
          /\ create_pr_after = i.pr
          /\ github_token = i.token
    /\ llm = NoLLM
    /\ unit = NoUnit
    /\ host = NoHost
    /\ turn = 0
    /\ llm_calls = 0
    /\ messages = <<>>
    /\ actions = <<>>
    /\ branch_name = <<>>
    /\ pr_url = <<>>
    /\ ci_round = 0
    /\ done = FALSE
    /\ files = <<>>
    /\ notified = <<>>
    /\ phases = <<>>
    /\ log = <<>>
    /\ last = NoTurn

TaskMessage(t) == [role |-> "user", kind |-> "task", task |-> t]
AssistantMessage(r) == [role |-> "assistant", kind |-> "response", response |-> r]
UseToolMessage == [role |-> "user", kind |-> "use_tool"]
S_Tool_results == <<"T", "o", "o", "l", " ", "r", "e", "s", "u", "l", "t", "s", ":", "\n">>
ToolResultsMessage(tool_results) ==
    [role |-> "user", kind |-> "tool_results",
     content |-> S_Tool_results \o Join(S_nl, tool_results)]
LintFailedMessage(out) == [role |-> "user", kind |-> "lint_failed", lint_out |-> out]

\* a loop header that runs one index too many
LoopOneMore(t) == t <= max_turns

\* orchestrator.py:98  for turn in range(max_turns): whether index t is run
LoopContinues(t) == t < max_turns

\* a start that announces the agent loop before the context hydration
StartLoopFirst ==
    /\ pc = "init"
    /\ pc' = IF LoopContinues(0) THEN "loop" ELSE "git"
    /\ messages' = <<TaskMessage(task)>>
    /\ phases' = phases \o <<"agent loop", "context hydration">>
    /\ UNCHANGED <<task, create_pr_after, github_token, llm_config, unit, host, llm,
                   turn, llm_calls, actions,
                   branch_name, pr_url, ci_round, done, files, notified, log, last>>

\* orchestrator.py:77-96: hydrate the context, build the first message, enter
\* the agent loop
Start ==
    /\ pc = "init"
    /\ pc' = IF LoopContinues(0) THEN "loop" ELSE "git"
    /\ messages' = <<TaskMessage(task)>>
    /\ phases' = phases \o <<"context hydration", "agent loop">>
    /\ UNCHANGED <<task, create_pr_after, github_token, llm_config, unit, host, llm,
                   turn, llm_calls, actions,
                   branch_name, pr_url, ci_round, done, files, notified, log, last>>

\* what a turn's tool calls did: acts are the records appended to
\* state.actions, notes those handed to on_action, results the entries of
\* tool_results, invoked the number of _execute_tool calls made
NoCalls(fs) ==
    [acts |-> <<>>, notes |-> <<>>, results |-> <<>>, files |-> fs,
     raised |-> FALSE, done |-> FALSE, invoked |-> 0]

\* orchestrator.py:132-135
Recorded(action, entry, rest) ==
    [acts |-> <<action>> \o rest.acts,
     notes |-> <<action>> \o rest.notes,
     results |-> <<entry>> \o rest.results,
     files |-> rest.files,
     raised |-> rest.raised,
     done |-> rest.done,
     invoked |-> 1 + rest.invoked]

RECURSIVE ExecCalls(_, _, _)

\* orchestrator.py:130-139: r is what _execute_tool did with the first call
AfterCall(calls, envs, name, params, r) ==
    IF r.raised THEN [NoCalls(r.files) EXCEPT !.raised = TRUE, !.invoked = 1]
    ELSE Recorded([tool |-> name, params |-> params, result |-> r.result],
                  Format(name) \o <<":", " ">> \o r.result,
                  IF name = JStr(S_done)
                  THEN [NoCalls(r.files) EXCEPT !.done = TRUE]
                  ELSE ExecCalls(Tail(calls), Tail(envs), r.files))

\* orchestrator.py:127-130
ExecCall(calls, envs, name, params, fs) ==
    AfterCall(calls, envs, name, params, _execute_tool(name, params, Head(envs), fs))

\* orchestrator.py:125-139: the tool calls of one turn, executed in order under
\* envs (one ToolEnvs value per call) from the tree fs
ExecCalls(calls, envs, fs) ==
    IF calls = <<>> THEN NoCalls(fs)
    ELSE ExecCall(calls, envs, Get(Head(calls), "name", JStr(<<>>)),
                  Get(Head(calls), "parameters", Head(calls)), fs)

\* tc.get("parameters", tc).get("path")
PathOf(tc) == Get(Get(tc, "parameters", tc), "path", JNull)
IsEdit(tc) == Get(tc, "name", JNull) = JStr(S_edit_file)
IsEditWithPath(tc) == IsEdit(tc) /\ Truthy(PathOf(tc))
PathsOf(kept) == [i \in 1..Len(kept) |-> PathOf(kept[i]).v]

\* orchestrator.py:152-157: the truthy paths of the turn's edit_file calls
edited_paths(tool_calls) == PathsOf(SelectSeq(tool_calls, IsEditWithPath))


LintResultName(lint) ==
    IF lint.raised THEN "raised" ELSE IF lint.ok THEN "ok" ELSE "failed"

LintEntry(where, given, paths, lint) ==
    [op |-> "lint", where |-> where, given |-> given, paths |-> paths,
     ran |-> lint.ran, result |-> LintResultName(lint), cause |-> lint.cause]

\* what an iteration did, before anything of it is known
TurnBegun ==
    [turn |-> turn + 1, msgs_before |-> Len(messages), acts_before |-> Len(actions),
     notes_before |-> Len(notified), log_before |-> Len(log), invoked |-> 0, lint_called |-> FALSE, lint_paths |-> <<>>, lint_ok |-> "none",
     exit |-> "continue"]

\* where run() stands after an iteration that ended without break
NextIteration == IF LoopContinues(turn + 1) THEN "loop" ELSE "git"

\* an iteration without tool calls that tells the model nothing
NoToolCallsSilent(response, msgs1) ==
    IF _looks_done(ResponseText(response))
    THEN [msgs |-> msgs1, acts |-> <<>>, notes |-> <<>>, files |-> files,
          done |-> TRUE, log |-> <<>>, pc |-> "git",
          last |-> [TurnBegun EXCEPT !.exit = "break"]]
    ELSE [msgs |-> msgs1, acts |-> <<>>, notes |-> <<>>,
          files |-> files, done |-> done, log |-> <<>>, pc |-> NextIteration,
          last |-> TurnBegun]

\* orchestrator.py:112-123: no tool call was extracted
NoToolCalls(response, msgs1) ==
    IF _looks_done(ResponseText(response))
    THEN [msgs |-> msgs1, acts |-> <<>>, notes |-> <<>>, files |-> files,
          done |-> TRUE, log |-> <<>>, pc |-> "git",
          last |-> [TurnBegun EXCEPT !.exit = "break"]]
    ELSE [msgs |-> Append(msgs1, UseToolMessage), acts |-> <<>>, notes |-> <<>>,
          files |-> files, done |-> done, log |-> <<>>, pc |-> NextIteration,
          last |-> TurnBegun]

\* orchestrator.py:158-166: the linter ran on the edited paths
Linted(msgs2, x, paths, lint) ==
    [msgs |-> IF ~lint.raised /\ ~lint.ok
              THEN Append(msgs2, LintFailedMessage(lint.output)) ELSE msgs2,
     acts |-> x.acts, notes |-> x.notes, files |-> x.files, done |-> done,
     log |-> <<LintEntry("loop", TRUE, paths, lint)>>,
     pc |-> IF lint.raised THEN "raised" ELSE NextIteration,
     last |-> [TurnBegun EXCEPT !.invoked = x.invoked,
                                !.lint_called = TRUE,
                                !.lint_paths = paths,
                                !.lint_ok = LintResultName(lint),
                                !.exit = IF lint.raised THEN "raised"
                                         ELSE "continue"]]

\* an iteration that goes on to the next one after a done call
AfterToolsNoBreak(msgs2, x, paths, lintenv) ==
    [msgs |-> msgs2, acts |-> x.acts, notes |-> x.notes, files |-> x.files,
     done |-> done \/ x.done, log |-> <<>>, pc |-> NextIteration,
     last |-> [TurnBegun EXCEPT !.invoked = x.invoked]]

\* orchestrator.py:148-166: the tool calls returned; msgs2 holds their results
AfterTools(msgs2, x, paths, lintenv) ==
    IF x.done
    THEN [msgs |-> msgs2, acts |-> x.acts, notes |-> x.notes, files |-> x.files,
          done |-> TRUE, log |-> <<>>, pc |-> "git",
          last |-> [TurnBegun EXCEPT !.invoked = x.invoked, !.exit = "break"]]
    ELSE IF paths = <<>>
    THEN [msgs |-> msgs2, acts |-> x.acts, notes |-> x.notes, files |-> x.files,
          done |-> done, log |-> <<>>, pc |-> NextIteration,
          last |-> [TurnBegun EXCEPT !.invoked = x.invoked]]
    ELSE Linted(msgs2, x, paths, run_relevant_linters(TRUE, paths, lintenv))

\* an iteration that keeps the tool results to itself
WithoutToolResults(msgs1, tool_results) == msgs1

\* orchestrator.py:142-146  if tool_results: append the user message
WithToolResults(msgs1, tool_results) ==
    IF tool_results # <<>>
    THEN Append(msgs1, ToolResultsMessage(tool_results)) ELSE msgs1

\* orchestrator.py:125-166: x is what the tool calls did
ToolCalls(msgs1, tool_calls, x, lintenv) ==
    IF x.raised
    THEN [msgs |-> msgs1, acts |-> x.acts, notes |-> x.notes, files |-> x.files,
          done |-> done, log |-> <<>>, pc |-> "raised",
          last |-> [TurnBegun EXCEPT !.invoked = x.invoked, !.exit = "raised"]]
    ELSE AfterTools(WithToolResults(msgs1, x.results), x, edited_paths(tool_calls),
                    lintenv)

\* orchestrator.py:108-166: the iteration on the response
TurnOutcome(response, tool_calls, envs, lintenv) ==
    IF tool_calls = <<>>
    THEN NoToolCalls(response, Append(messages, AssistantMessage(response)))
    ELSE ToolCalls(Append(messages, AssistantMessage(response)), tool_calls,
                   ExecCalls(tool_calls, envs, files), lintenv)

\* the state after an iteration with outcome r
TurnDone(r) ==
    /\ turn' = turn + 1
    /\ llm_calls' = llm_calls + 1
    /\ messages' = r.msgs
    /\ actions' = actions \o r.acts
    /\ notified' = notified \o r.notes
    /\ files' = r.files
    /\ done' = r.done
    /\ log' = log \o r.log
    /\ pc' = r.pc
    /\ last' = r.last
    /\ UNCHANGED <<task, create_pr_after, github_token, llm_config, unit, host,
                   branch_name, pr_url,
                   ci_round, phases>>

\* orchestrator.py:98-166: one iteration of the agent loop on the response the
\* LLM client returned, with the operating system behaving as envs (per tool
\* call) and lintenv say
AgentTurn(response, envs, lintenv) ==
    /\ pc = "loop"
    /\ TurnDone(TurnOutcome(response, _parse_tool_calls(response), envs, lintenv))

\* orchestrator.py:102: self.llm.complete(messages, system=...) with the
\* providers behaving as env returned response
Completion(env, response) ==
    /\ ~complete(llm_config, env).raised
    /\ complete(llm_config, env).text = <<response>>
    /\ llm' = [env |-> env, out |-> complete(llm_config, env)]

\* orchestrator.py:102 with llm.py:68: every provider of the chain raised
LLMFails(env) ==
    /\ pc = "loop"
    /\ complete(llm_config, env).raised
    /\ llm' = [env |-> env, out |-> complete(llm_config, env)]
    /\ turn' = turn + 1
    /\ llm_calls' = llm_calls + 1
    /\ pc' = "raised"
    /\ last' = [TurnBegun EXCEPT !.exit = "llm_raised"]
    /\ UNCHANGED <<task, create_pr_after, github_token, llm_config, unit, host,
                   messages, actions,
                   branch_name, pr_url, ci_round, done, files, notified, phases,
                   log>>

\* a gate that asks git for changes whether or not the task is done
GitGateAlways(changes) ==
    /\ pc = "git"
    /\ log' = Append(log, [op |-> "has_changes", result |-> changes])
    /\ pc' = CASE changes = "changes" -> "create_branch"
               [] changes = "clean" -> "returned"
               [] OTHER -> "raised"
    /\ phases' = IF changes = "changes" THEN Append(phases, "git") ELSE phases
    /\ UNCHANGED <<task, create_pr_after, github_token, llm_config, unit, host, llm,
                   turn, llm_calls, messages,
                   actions, branch_name, pr_url, ci_round, done, files, notified,
                   last>>

\* orchestrator.py:169  if state.done and self.git.has_changes(); changes is
\* what `git status --porcelain` does: "changes", "clean" or "raise"
GitGate(changes) ==
    /\ pc = "git"
    /\ IF ~done
       THEN /\ pc' = "returned"
            /\ UNCHANGED <<log, phases>>
       ELSE /\ log' = Append(log, [op |-> "has_changes", result |-> changes])
            /\ pc' = CASE changes = "changes" -> "create_branch"
                       [] changes = "clean" -> "returned"
                       [] OTHER -> "raised"
            /\ phases' = IF changes = "changes" THEN Append(phases, "git") ELSE phases
    /\ UNCHANGED <<task, create_pr_after, github_token, llm_config, unit, host, llm,
                   turn, llm_calls, messages,
                   actions, branch_name, pr_url, ci_round, done, files, notified,
                   last>>

\* orchestrator.py:171-173; ok is whether `git checkout -b` exits 0
CreateBranch(ok) ==
    /\ pc = "create_branch"
    /\ log' = Append(log, [op |-> "create_branch", arg |-> safe_name(task),
                           result |-> IF ok THEN "ok" ELSE "raised"])
    /\ branch_name' = IF ok THEN create_branch(safe_name(task)) ELSE branch_name
    /\ pc' = IF ok THEN "commit" ELSE "raised"
    /\ UNCHANGED <<task, create_pr_after, github_token, llm_config, unit, host, llm,
                   turn, llm_calls, messages,
                   actions, pr_url, ci_round, done, files, notified, phases, last>>

\* a commit step whose failure is passed over
StageAndCommitLenient(ok) ==
    /\ pc = "commit"
    /\ log' = Append(log, [op |-> "stage_and_commit", arg |-> commit_message(task),
                           result |-> IF ok THEN "ok" ELSE "raised"])
    /\ pc' = "post_lint"
    /\ UNCHANGED <<task, create_pr_after, github_token, llm_config, unit, host, llm,
                   turn, llm_calls, messages,
                   actions, branch_name, pr_url, ci_round, done, files, notified,
                   phases, last>>

\* orchestrator.py:175; ok is whether `git add -A` and `git commit` exit 0
StageAndCommit(ok) ==
    /\ pc = "commit"
    /\ log' = Append(log, [op |-> "stage_and_commit", arg |-> commit_message(task),
                           result |-> IF ok THEN "ok" ELSE "raised"])
    /\ pc' = IF ok THEN "post_lint" ELSE "raised"
    /\ UNCHANGED <<task, create_pr_after, github_token, llm_config, unit, host, llm,
                   turn, llm_calls, messages,
                   actions, branch_name, pr_url, ci_round, done, files, notified,
                   phases, last>>

\* orchestrator.py:181-185: the paths of the run's edit_file actions, as a set
all_edited(acts) ==
    {acts[i].params.d["path"].v :
        i \in {j \in 1..Len(acts) :
                  /\ acts[j].tool = JStr(S_edit_file)
                  /\ Truthy(Get(acts[j].params, "path", JNull))}}

\* list(a_set): the elements in some order
Orders(S) ==
    {q \in [1..Cardinality(S) -> S] : \A e \in S : \E i \in DOMAIN q : q[i] = e}

\* a lint pass whose failure ends the run before the push
PostLintedStops(paths, lint) ==
    /\ log' = Append(log, LintEntry("post_commit", paths # <<>>, paths, lint))
    /\ ci_round' = IF ~lint.raised /\ ~lint.ok THEN 1 ELSE ci_round
    /\ pc' = IF lint.raised THEN "raised" ELSE IF lint.ok THEN "push" ELSE "returned"

\* a lint pass that counts a round whenever the linters were not clean, an
\* exception included
PostLintedCounts(paths, lint) ==
    /\ log' = Append(log, LintEntry("post_commit", paths # <<>>, paths, lint))
    /\ ci_round' = IF ~lint.ok THEN 1 ELSE ci_round
    /\ pc' = IF lint.raised THEN "raised" ELSE "push"

\* orchestrator.py:186-189: the lint pass returned lint (or raised)
PostLinted(paths, lint) ==
    /\ log' = Append(log, LintEntry("post_commit", paths # <<>>, paths, lint))
    /\ ci_round' = IF ~lint.raised /\ ~lint.ok THEN 1 ELSE ci_round
    /\ pc' = IF lint.raised THEN "raised" ELSE "push"

\* orchestrator.py:178-189: the lint pass after the commit, over
\* paths=all_edited or None
PostCommitLint(lintenv) ==
    /\ pc = "post_lint"
    /\ \E paths \in Orders(all_edited(actions)) :
          PostLinted(paths, run_relevant_linters(paths # <<>>, paths, lintenv))
    /\ UNCHANGED <<task, create_pr_after, github_token, llm_config, unit, host, llm,
                   turn, llm_calls, messages,
                   actions, branch_name, pr_url, done, files, notified, phases,
                   last>>

\* a push whose failure is passed over
PushLenient(ok) ==
    /\ pc = "push"
    /\ log' = Append(log, [op |-> "push", arg |-> branch_name,
                           result |-> IF ok THEN "ok" ELSE "raised"])
    /\ pc' = IF create_pr_after THEN "pr" ELSE "returned"
    /\ UNCHANGED <<task, create_pr_after, github_token, llm_config, unit, host, llm,
                   turn, llm_calls, messages,
                   actions, branch_name, pr_url, ci_round, done, files, notified,
                   phases, last>>

\* a push that goes on to the pull request whether or not one was asked for
PushThenPr(ok) ==
    /\ pc = "push"
    /\ log' = Append(log, [op |-> "push", arg |-> branch_name,
                           result |-> IF ok THEN "ok" ELSE "raised"])
    /\ pc' = IF ~ok THEN "raised" ELSE "pr"
    /\ UNCHANGED <<task, create_pr_after, github_token, llm_config, unit, host, llm,
                   turn, llm_calls, messages,
                   actions, branch_name, pr_url, ci_round, done, files, notified,
                   phases, last>>

\* orchestrator.py:191-196; ok is whether `git push -u` exits 0
Push(ok) ==
    /\ pc = "push"
    /\ log' = Append(log, [op |-> "push", arg |-> branch_name,
                           result |-> IF ok THEN "ok" ELSE "raised"])
    /\ pc' = IF ~ok THEN "raised" ELSE IF create_pr_after THEN "pr" ELSE "returned"
    /\ UNCHANGED <<task, create_pr_after, github_token, llm_config, unit, host, llm,
                   turn, llm_calls, messages,
                   actions, branch_name, pr_url, ci_round, done, files, notified,
                   phases, last>>

S_create_pr == <<"c", "r", "e", "a", "t", "e", "_", "p", "r">>

\* orchestrator.py:201  if pr_url:
PrTruthy(pr) == ~pr.raised /\ pr.some /\ pr.url # <<>>

\* orchestrator.py:201-206: _create_pr returned pr (or raised)
PrCreated(pr, record, env) ==
    /\ log' = Append(log, [op |-> "_create_pr", api |-> pr.api, cli |-> pr.cli,
                           url |-> pr.url, env |-> env,
                           result |-> IF pr.raised THEN "raised"
                                      ELSE IF pr.some THEN "url" ELSE "none"])
    /\ pr_url' = IF PrTruthy(pr) THEN pr.url ELSE pr_url
    /\ actions' = IF PrTruthy(pr) THEN Append(actions, record) ELSE actions
    /\ notified' = IF PrTruthy(pr) THEN Append(notified, record) ELSE notified
    /\ pc' = IF pr.raised THEN "raised" ELSE "returned"

\* {"tool": "create_pr", "result": pr_url}
PrRecord(pr) == [tool |-> JStr(S_create_pr), result |-> pr.url]

\* orchestrator.py:196-206
CreatePr(api, cli) ==
    /\ pc = "pr"
    /\ phases' = Append(phases, "pull request")
    /\ PrCreated(_create_pr(github_token, branch_name, api, cli),
                 PrRecord(_create_pr(github_token, branch_name, api, cli)),
                 PrEnv(api, cli))
    /\ UNCHANGED <<task, create_pr_after, github_token, llm_config, unit, host, llm,
                   turn, llm_calls, messages,
                   branch_name, ci_round, done, files, last>>

\* -------------------------------------------------------------------- inputs

S_ok == <<"o", "k">>
S_All_Done == <<"A", "l", "l", " ", "D", "o", "n", "e">>
S_x == <<"x">>
S_crlf == <<"x", "\r", "\n", "y">>
S_exit_1 == <<"e", "x", "i", "t", " ", "1">>
S_5 == <<"5">>
S_braces == <<"{", "}">>
S_nameless == <<"{", "\"", "a", "\"", ":", "1", "}">>
S_bad_json == <<"{", "a", "l", "l", " ", "d", "o", "n", "e", "}">>

\* {"name": name, "parameters": params}
Call(name, params) == JObj([name |-> JStr(name), parameters |-> params])
\* a fenced minion_tool block holding a tool call
ToolBlock(call) == Block(S_minion_tool, S_braces, call)

EditA == Call(S_edit_file, JObj([path |-> JStr(S_a_py), content |-> JStr(S_x)]))
\* {"name": "edit_file", "path": "b.js", "content": "x"}: no "parameters" key
EditB ==
    JObj([name |-> JStr(S_edit_file), path |-> JStr(S_b_js), content |-> JStr(S_crlf)])
EditBlank == Call(S_edit_file, JObj([path |-> JStr(S_blank), content |-> JStr(S_x)]))
ReadA == Call(S_read_file, JObj([path |-> JStr(S_a_py)]))
\* {"name": "read_file", "parameters": "a.py"}
ReadBad == Call(S_read_file, JStr(S_a_py))
\* {"name": "edit_file", "parameters": {"path": 5}}
EditNum == Call(S_edit_file, JObj([path |-> JNum(S_5), content |-> JStr(S_x)]))
Shell == Call(S_run_shell, JObj([command |-> JStr(S_exit_1)]))
DoneCall == Call(S_done, JObj([summary |-> JStr(S_ok)]))
Grep == Call(S_grep, JObj([command |-> JStr(S_x)]))
\* {"name": "create_pr", "parameters": {"title": "x"}}
PrCall == Call(S_create_pr, JObj([title |-> JStr(S_x)]))
\* an edit whose content opens with a unified-diff header
EditDiff ==
    Call(S_edit_file, JObj([path |-> JStr(S_a_py), content |-> JStr(S_diff_a \o S_a_py)]))

\* prose without a completion phrase, and prose with one
PlainResponse == Response(S_ok, <<>>)
PhraseResponse == Response(S_All_Done, <<>>)

\* responses with fenced blocks
ToolResponses ==
    { Response(S_ok, <<ToolBlock(EditA), ToolBlock(EditB)>>),
      Response(S_ok, <<ToolBlock(ReadA), ToolBlock(EditBlank)>>),
      Response(S_ok, <<ToolBlock(Shell), ToolBlock(Grep)>>),
      Response(S_ok, <<ToolBlock(PrCall)>>),
      Response(S_ok, <<ToolBlock(EditA), ToolBlock(DoneCall)>>),
      Response(S_All_Done, <<ToolBlock(DoneCall), ToolBlock(EditB)>>),
      Response(S_ok, <<ToolBlock(EditA), ToolBlock(ReadBad)>>),
      Response(S_ok, <<ToolBlock(EditNum)>>),
      Response(S_ok, <<ToolBlock(EditDiff)>>),
      Response(S_ok, <<Block(S_json, S_nameless, JObj([a |-> JNum(<<"1">>)])),
                       Block(S_python, S_braces, DoneCall)>>),
      Response(S_ok, <<Block(S_json, S_bad_json, Malformed)>>) }

(* The responses of a run are drawn as follows.  Responses with fenced blocks  *)
(* come first, at most MaxToolTurns of them and at most MaxReadTurns that read  *)
(* a written file back.  Prose follows: after fenced blocks, either the         *)
(* completion phrase at once, or prose that never holds it; in a run without    *)
(* any fenced block, the completion phrase may come at any turn.                *)
ProseSeen ==
    \E i \in DOMAIN messages :
        messages[i].kind = "response" /\ messages[i].response.blocks = <<>>
BlocksSeen ==
    \E i \in DOMAIN messages :
        messages[i].kind = "response" /\ messages[i].response.blocks # <<>>

\* what the operating system may do to the tools and linters of an iteration
\* (within one iteration both linters behave alike)
LoopLintEnvs == {e \in LintEnvs : e.staged = "empty" /\ e.ruff = e.eslint}
\* and to the linters and the staged-files query after the commit
PostLintEnvs == {e \in LintEnvs : e.ruff = e.eslint}
\* and to the hosted API, which is reached only with a token and a branch
PrApiOutcomes ==
    IF ApiTried(github_token, branch_name) THEN ApiOutcomes ELSE {"no_remote"}

\* a response no turn of these runs is drawn from
Decoy == Response(S_x, <<>>)

\* how the providers may behave when response is what one of them answers:
\* anthropic answers it, or anthropic raises and openai answers it
TurnLLMEnvs(response) ==
    { [anthropic |-> Answers(response), openai |-> Answers(Decoy)],
      [anthropic |-> Fails("AuthenticationError"), openai |-> Answers(response)] }

\* how the providers may behave when the client is to fail
FailLLMEnvs ==
    { [anthropic |-> Fails("AuthenticationError"), openai |-> Fails("RateLimitError")],
      [anthropic |-> Fails("AuthenticationError"), openai |-> Answers(Decoy)] }

\* a turn on prose without a completion phrase
PlainTurn ==
    \E llmenv \in TurnLLMEnvs(PlainResponse) :
        /\ Completion(llmenv, PlainResponse)
        /\ \E lintenv \in {CHOOSE e \in LoopLintEnvs : TRUE} :
              AgentTurn(PlainResponse, <<>>, lintenv)

\* a turn on prose with a completion phrase
PhraseTurn ==
    /\ ~(ProseSeen /\ BlocksSeen)
    /\ \E llmenv \in TurnLLMEnvs(PhraseResponse) :
          /\ Completion(llmenv, PhraseResponse)
          /\ \E lintenv \in {CHOOSE e \in LoopLintEnvs : TRUE} :
                AgentTurn(PhraseResponse, <<>>, lintenv)

\* a turn on a response with fenced blocks
ToolTurn ==
    /\ turn < MaxToolTurns
    /\ ~ProseSeen
    /\ \E response \in ToolResponses :
          \E llmenv \in TurnLLMEnvs(response) :
             /\ Completion(llmenv, response)
             /\ \E envs \in [1..Len(response.blocks) -> ToolEnvs] :
                   \E lintenv \in LoopLintEnvs : AgentTurn(response, envs, lintenv)

\* the read_file response for a path
ReadBack(path) == Response(S_ok, <<ToolBlock(Call(S_read_file, JObj([path |-> JStr(path)])))>>)
ReadBacksSeen ==
    Cardinality({i \in DOMAIN messages :
                    /\ messages[i].kind = "response"
                    /\ \E p \in DOMAIN files : messages[i].response = ReadBack(p)})

\* a turn on a response that reads back a file written earlier in the run
ReadTurn ==
    /\ ReadBacksSeen < MaxReadTurns
    /\ ~ProseSeen
    /\ \E path \in DOMAIN files :
          \E llmenv \in TurnLLMEnvs(ReadBack(path)) :
             /\ Completion(llmenv, ReadBack(path))
             /\ \E lintenv \in {CHOOSE e \in LoopLintEnvs : TRUE} :
                   AgentTurn(ReadBack(path), <<"ok">>, lintenv)

Next ==
    \/ Start
    \/ ToolTurn
    \/ ReadTurn
    \/ PlainTurn
    \/ PhraseTurn
    \/ \E llmenv \in FailLLMEnvs : LLMFails(llmenv)
    \/ \E changes \in {"changes", "clean", "raise"} : GitGate(changes)
    \/ \E ok \in BOOLEAN : CreateBranch(ok)
    \/ \E ok \in BOOLEAN : StageAndCommit(ok)
    \/ \E lintenv \in PostLintEnvs : PostCommitLint(lintenv)
    \/ \E ok \in BOOLEAN : Push(ok)
    \/ \E api \in PrApiOutcomes, cli \in CliOutcomes : CreatePr(api, cli)

Spec == Init /\ [][Next]_vars

\* ------------------------------------------------- the facades on their own

\* the variables of a run
runvars == <<pc, task, llm_config, create_pr_after, github_token, turn, llm_calls,
             messages, actions, branch_name, pr_url, ci_round, done, files,
             notified, phases, log, last, llm>>

\* the client configurations and provider behaviours a stream call is made with
StreamConfigs ==
    {LLMConfig(p, fp, fm) : p \in {"anthropic", "openai", "other"},
                            fp \in {"", "anthropic", "openai"}, fm \in {"", "gpt"}}
StreamOutcomes(error) ==
    {Streams(<<"a", "b">>), Breaks(<<>>, error), Breaks(<<"a">>, error)}
StreamEnvs ==
    {[anthropic |-> a, openai |-> o] :
        a \in StreamOutcomes("AuthenticationError"),
        o \in StreamOutcomes("RateLimitError")}

\* LLMClient.stream called on a client configured as config
StreamCall(config, env) ==
    /\ unit' = [fn |-> "stream", config |-> config, env |-> env,
                out |-> stream(config, env)]
    /\ UNCHANGED <<runvars, host>>

\* the operations of GitTools and the arguments they are called with
GitOps0 == {"current_branch", "create_branch", "status", "has_changes", "fetch_latest"}
GitArgs(op) ==
    IF op = "stage_and_commit" THEN {<<>>, <<S_a_py>>, <<S_a_py, S_b_js>>}
    ELSE IF op = "push" THEN {<<>>, create_branch(S_x)}
    ELSE IF op = "diff" THEN {<<>>, <<S_a_py>>}
    ELSE {<<>>}

\* an operation of GitTools called while git behaves as exits
GitCall(op, arg, exits) ==
    /\ unit' = [fn |-> "git", op |-> op, arg |-> arg, exits |-> exits,
                out |-> GitOperation(op, arg, exits)]
    /\ UNCHANGED <<runvars, host>>

\* the paths run_relevant_linters is called with, and the staged paths
S_readme == <<"R", "E", "A", "D", "M", "E">>
S_c_tsx == <<"c", ".", "t", "s", "x">>
LintPathLists == {<<>>, <<S_a_py>>, <<S_b_js, S_readme>>, <<S_a_py, S_c_tsx>>, <<S_readme>>}
\* what the operating system may do to a call of the lint facade on its own
UnitLintEnvs(given) ==
    {[ruff |-> r, eslint |-> e, staged |-> st, files |-> f] :
        r \in LinterOutcomes, e \in LinterOutcomes,
        st \in IF given THEN {"empty"} ELSE {"raise", "files"},
        f \in IF given THEN {<<>>} ELSE LintPathLists}

\* LintTools.run_relevant_linters called with paths (given) or without
LintCall(given, paths, env) ==
    /\ unit' = [fn |-> "lint", given |-> given, paths |-> paths, env |-> env,
                out |-> run_relevant_linters(given, paths, env)]
    /\ UNCHANGED <<runvars, host>>

\* the task texts a branch slug is derived from
S_task_urgent ==
    <<"F", "i", "x", " ", "l", "o", "g", "i", "n", " ", "b", "u", "g", "!",
      "!", " ", "u", "r", "g", "e", "n", "t", "l", "y">>
S_task_marks ==
    <<"!", "!", "!">>
S_task_long ==
    <<"a", "a", "a", "a", "a", "a", "a", "a", "a", "a", "a", "a", "a", "a",
      "a", "a", "a", "a", "a", "a", "a", "a", "a", "a", "a", "a", "a", "a",
      "a", " ", "b", "c", "d", "e", "f", "g", "h", "i", "j">>
S_task_flaky ==
    <<"F", "i", "x", " ", "t", "h", "e", " ", "f", "l", "a", "k", "y", " ",
      "A", "u", "t", "h", "e", "n", "t", "i", "c", "a", "t", "i", "o", "n",
      " ", "t", "e", "s", "t", " ", "i", "n", " ", "C", "I", " ", "n", "o",
      "w">>
UnitTasks == {S_task_fix, S_task_urgent, S_task_marks, S_task_long, S_task_flaky}

\* orchestrator.py:171-173: the slug of a task and the branch made from it
SlugCall(t) ==
    /\ unit' = [fn |-> "slug", task |-> t, out |-> safe_name(t),
                branch |-> create_branch(safe_name(t))]
    /\ UNCHANGED <<runvars, host>>

\* --------------------------------------------------------- the hosting layers

(* The web API and the webhook handler start each run as an asyncio task on    *)
(* the one event loop of the process.  A task runs until it awaits: a run is   *)
(* suspended while a completion is requested (orchestrator.py:102), and what   *)
(* it does between two completions (tool calls, lint, and after the last one   *)
(* the whole git phase, all through blocking subprocess calls) is one step.    *)

\* at most MaxHostRuns runs are started
MaxHostRuns == 2
\* web.py:155  the checkout the webhook handler works on
DefaultRepo == "repo1"
HostFiles == {"a.py", "b.js"}

\* the runs that have begun and not ended
ActiveRuns == {r \in DOMAIN host.runs : host.runs[r].at = "loop"}

\* web.py:68-132  POST /api/runs for a request whose repo_path lies in repo:
\* the registry entry is written and _execute is scheduled
HostCreateRun(repo) ==
    /\ Len(host.runs) < MaxHostRuns
    /\ host' = [host EXCEPT !.runs = Append(@, [origin |-> "api", repo |-> repo,
                                                status |-> "running", error |-> FALSE,
                                                writes |-> 0, at |-> "scheduled",
                                                edited |-> FALSE, outcome |-> "none"])]
    /\ UNCHANGED <<runvars, unit>>

\* github_client.py:354-395  an issue labelled minion or a /minion comment:
\* _run_from_webhook is scheduled on the default checkout, without a registry
\* entry
HostWebhook ==
    /\ Len(host.runs) < MaxHostRuns
    /\ host' = [host EXCEPT !.runs = Append(@, [origin |-> "webhook", repo |-> DefaultRepo,
                                                status |-> "none", error |-> FALSE,
                                                writes |-> 0, at |-> "scheduled",
                                                edited |-> FALSE, outcome |-> "none"])]
    /\ UNCHANGED <<runvars, unit>>

\* web.py:99-101, github_client.py:397-402: the task starts, builds its
\* Orchestrator on the checkout and runs up to its first completion request
HostBegin(r) ==
    /\ r \in DOMAIN host.runs
    /\ host.runs[r].at = "scheduled"
    /\ host' = [host EXCEPT !.runs[r].at = "loop"]
    /\ UNCHANGED <<runvars, unit>>

\* a status that takes every run that ended for a completed one
StatusCompleted(outcome) == "completed"

\* web.py:120-124: the status written for a run that returned with done
\* ("done"), returned without done ("not_done") or raised ("raised")
StatusOf(outcome) ==
    CASE outcome = "done" -> "completed"
      [] outcome = "not_done" -> "stopped"
      [] OTHER -> "failed"

\* the registry entry of r after its run ended as status (web.py:109-124);
\* a run started by the webhook has none
Registered(run, status) ==
    IF run.origin = "api"
    THEN [run EXCEPT !.status = status, !.error = (status = "failed"),
                     !.writes = @ + 1, !.at = "ended"]
    ELSE [run EXCEPT !.at = "ended"]

\* orchestrator.py:108-166: a completion arrived with an edit_file call for
\* file f; the file is written into the working tree and the next completion
\* is requested
HostEdit(r, f) ==
    /\ r \in ActiveRuns
    /\ ~host.runs[r].edited
    /\ host' = [host EXCEPT !.runs[r].edited = TRUE,
                            !.tree[host.runs[r].repo] = @ \cup {[file |-> f, by |-> r]}]
    /\ UNCHANGED <<runvars, unit>>

\* orchestrator.py:168-206 with git_tools.py:35-42: a completion arrived that
\* set done; the git phase stages everything in the working tree (git add -A)
\* and commits it, and the run returns
HostDone(r) ==
    /\ r \in ActiveRuns
    /\ host' = [host EXCEPT
            !.runs[r] = Registered([@ EXCEPT !.outcome = "done"], StatusOf("done")),
            !.tree[host.runs[r].repo] = {},
            !.commits = IF host.tree[host.runs[r].repo] = {} THEN @
                        ELSE Append(@, [by |-> r, repo |-> host.runs[r].repo,
                                        edits |-> host.tree[host.runs[r].repo],
                                        active |-> ActiveRuns \ {r}])]
    /\ UNCHANGED <<runvars, unit>>

\* the run returned without done (the turns ran out), or raised
HostEnd(r, outcome) ==
    /\ r \in ActiveRuns
    /\ host' = [host EXCEPT !.runs[r] = Registered([@ EXCEPT !.outcome = outcome],
                                                   StatusOf(outcome))]
    /\ UNCHANGED <<runvars, unit>>

HostNext ==
    \/ \E repo \in Repos : HostCreateRun(repo)
    \/ HostWebhook
    \/ \E r \in 1..MaxHostRuns : HostBegin(r)
    \/ \E r \in 1..MaxHostRuns, f \in HostFiles : HostEdit(r, f)
    \/ \E r \in 1..MaxHostRuns : HostDone(r)
    \/ \E r \in 1..MaxHostRuns, outcome \in {"not_done", "raised"} : HostEnd(r, outcome)

\* contents that open with "{" and do not end with "}"
S_truncated == <<"{", "\"", "a", "\"", ":", " ", "[", "1", ",">>
S_trailing == <<"{", "}", " ", "/", "/", " ", "o", "k">>
\* the responses tool calls are extracted from
ParseResponses ==
    ToolResponses \cup
    { PlainResponse,
      Response(S_ok, <<Block(S_json, S_truncated, Malformed), ToolBlock(DoneCall)>>),
      Response(S_ok, <<ToolBlock(EditA), Block(<<>>, S_trailing, Malformed),
                       Block(S_python, S_x, Malformed), ToolBlock(DoneCall)>>),
      Response(S_ok, <<Block(<<>>, S_braces, Shell), Block(S_json, S_truncated, Malformed)>>) }

\* Orchestrator._parse_tool_calls on a response
ParseCall(response) ==
    /\ unit' = [fn |-> "parse", response |-> response,
                out |-> _parse_tool_calls(response)]
    /\ UNCHANGED <<runvars, host>>

\* ------------------------------------------------- waiting for the CI checks

(* GitHubClient.wait_for_checks is a coroutine: it is suspended at every       *)
(* status query and at every sleep, and the event loop resumes it when the     *)
(* awaited query or sleep completes.  The call in progress is kept in unit:    *)
(* at tells where the coroutine stands, seen holds the states of the statuses  *)
(* received so far, late tells whether a sleep was begun with the timeout      *)
(* already reached.                                                            *)

MaxTimeout == 6
\* the poll intervals and timeouts wait_for_checks is called with
PollIntervals == 1..3
Timeouts == 0..MaxTimeout
\* CheckStatus.state
CheckStates == {"pending", "success", "failure"}

\* a loop that goes round once more when the timeout is just reached
WaitContinuesInclusive(elapsed, timeout_seconds) == elapsed <= timeout_seconds

\* github_client.py:293  while elapsed < timeout_seconds
WaitContinues(elapsed, timeout_seconds) == elapsed < timeout_seconds

Waiting == unit.fn = "wait" /\ unit.at # "returned"

\* github_client.py:283-292: the call, up to the first test of the loop
WaitStart(timeout_seconds, poll_interval) ==
    /\ ~Waiting
    /\ unit' = [fn |-> "wait", at |-> "test", timeout_seconds |-> timeout_seconds,
                poll_interval |-> poll_interval, elapsed |-> 0, seen |-> <<>>,
                polls |-> 0, sleeps |-> 0, finals |-> 0, late |-> FALSE,
                out |-> "none"]
    /\ UNCHANGED <<runvars, host>>

\* github_client.py:293-296: the loop is entered and the status query returns
\* a status in state
WaitPoll(state) ==
    /\ Waiting /\ unit.at = "test"
    /\ WaitContinues(unit.elapsed, unit.timeout_seconds)
    /\ unit' = [unit EXCEPT !.seen = Append(@, state),
                            !.polls = @ + 1,
                            !.at = IF state \in {"success", "failure"}
                                   THEN "returned" ELSE "sleep",
                            !.out = IF state \in {"success", "failure"}
                                    THEN state ELSE @]
    /\ UNCHANGED <<runvars, host>>

\* github_client.py:297-298: the sleep is over
WaitSleep ==
    /\ Waiting /\ unit.at = "sleep"
    /\ unit' = [unit EXCEPT !.sleeps = @ + 1,
                            !.late = @ \/ unit.elapsed >= unit.timeout_seconds,
                            !.elapsed = @ + unit.poll_interval,
                            !.at = "test"]
    /\ UNCHANGED <<runvars, host>>

\* github_client.py:300: the loop is left and the last status query returns a
\* status in state
WaitFinal(state) ==
    /\ Waiting /\ unit.at = "test"
    /\ ~WaitContinues(unit.elapsed, unit.timeout_seconds)
    /\ unit' = [unit EXCEPT !.seen = Append(@, state), !.finals = @ + 1,
                            !.at = "returned", !.out = state]
    /\ UNCHANGED <<runvars, host>>

\* the steps the event loop takes the coroutine through
WaitStep ==
    \/ \E state \in CheckStates : WaitPoll(state)
    \/ WaitSleep
    \/ \E state \in CheckStates : WaitFinal(state)

WaitNext ==
    \/ \E t \in Timeouts, i \in PollIntervals : WaitStart(t, i)
    \/ WaitStep

UnitInit ==
    /\ Init
    /\ llm_config = NoFallback
    /\ create_pr_after = FALSE

UnitNext ==
    \/ \E config \in StreamConfigs, env \in StreamEnvs : StreamCall(config, env)
    \/ \E op \in GitOps0 \cup {"stage_and_commit", "push", "diff"} :
          \E arg \in GitArgs(op) :
             \E exits \in [1..Len(GitCommands(op, arg)) -> ExitCodes] :
                GitCall(op, arg, exits)
    \/ \E given \in BOOLEAN :
          \E paths \in IF given THEN LintPathLists ELSE {<<>>} :
             \E env \in UnitLintEnvs(given) : LintCall(given, paths, env)
    \/ \E t \in UnitTasks : SlugCall(t)
    \/ \E response \in ParseResponses : ParseCall(response)

UnitSpec == UnitInit /\ [][UnitNext]_vars

HostSpec == UnitInit /\ [][HostNext]_vars
\* a query or a sleep that is awaited completes, and the coroutine is resumed
WaitSpec == UnitInit /\ [][WaitNext]_vars /\ WF_vars(WaitStep)

TypeOK ==
    /\ pc \in {"init", "loop", "git", "create_branch", "commit", "post_lint",
               "push", "pr", "returned", "raised"}
    /\ turn \in 0..max_turns
    /\ ci_round \in {0, 1}
    /\ done \in BOOLEAN

\* ---------------------------------------------------------------- properties

\* an iteration has just ended (normally, by break or by an exception) and
\* nothing has happened since
JustAfterTurn ==
    /\ last.turn > 0
    /\ \/ pc \in {"loop", "git"}
       \/ pc = "raised" /\ last.exit \in {"raised", "llm_raised"}
\* the LLM client returned a response in that iteration
Responded == JustAfterTurn /\ last.exit # "llm_raised"
\* the response of that iteration, and what the iteration appended
LastResponse == messages[last.msgs_before + 1].response
TurnMessages == SubSeq(messages, last.msgs_before + 1, Len(messages))
TurnActions == SubSeq(actions, last.acts_before + 1, Len(actions))
TurnNotes == SubSeq(notified, last.notes_before + 1, Len(notified))
TurnLog == SubSeq(log, last.log_before + 1, Len(log))

\* the text holds a completion phrase, compared case-insensitively
HasPhrase(text) ==
    \E k \in DOMAIN done_signals : Contains(Lower(text), done_signals[k])

\* C1: a run requests at most 20 completions from the LLM client, and when the
\* 20th turn ends without done being set the run goes on to return normally
\* with done=false.
C1_TurnCap ==
    /\ llm_calls <= max_turns
    /\ turn <= max_turns
    /\ (last.turn = max_turns /\ last.exit = "continue")
          => (~done /\ pc \in {"git", "returned"})

\* a run that used all 20 turns without done and returned
C1_Witness ==
    pc = "returned" /\ llm_calls = max_turns /\ ~done /\ last.exit = "continue"

C3_PhraseEndsLoop ==
    (/\ Responded
     /\ _parse_tool_calls(LastResponse) = <<>>
     /\ HasPhrase(ResponseText(LastResponse)))
    => /\ done
       /\ pc = "git"
       /\ last.exit = "break"
       /\ TurnMessages = <<AssistantMessage(LastResponse)>>
       /\ TurnActions = <<>>
       /\ TurnNotes = <<>>

\* the loop was left on the mixed-case prose "All Done"
C3_Witness ==
    /\ pc = "git"
    /\ done
    /\ last.exit = "break"
    /\ last.invoked = 0
    /\ LastResponse = PhraseResponse
    /\ ~Contains(ResponseText(LastResponse), done_signals[4])

\* C4: a response with no tool call and no completion phrase appends the
\* assistant message and then exactly one corrective user message, records no
\* action, runs no linter, leaves done false and uses exactly one turn.
C4_CorrectiveMessage ==
    (/\ Responded
     /\ _parse_tool_calls(LastResponse) = <<>>
     /\ ~HasPhrase(ResponseText(LastResponse)))
    => /\ TurnMessages = <<AssistantMessage(LastResponse), UseToolMessage>>
       /\ TurnActions = <<>>
       /\ TurnNotes = <<>>
       /\ TurnLog = <<>>
       /\ ~last.lint_called
       /\ ~done
       /\ last.exit = "continue"
       /\ turn = last.turn
       /\ llm_calls = last.turn
       /\ last.turn = Cardinality({i \in DOMAIN messages : messages[i].role = "assistant"})

\* the second turn was such a response, after a first turn of the same kind
C4_Witness ==
    /\ pc = "loop"
    /\ last.turn = 2
    /\ last.exit = "continue"
    /\ LastResponse = PlainResponse
    /\ messages[Len(messages)] = UseToolMessage
    /\ Len(messages) = 5

\* the calls of a response that the loop reaches: all of them up to and
\* including the first one named done
RECURSIVE UpToDone(_)
UpToDone(calls) ==
    IF calls = <<>> THEN <<>>
    ELSE IF Get(Head(calls), "name", JNull) = JStr(S_done) THEN <<Head(calls)>>
    ELSE <<Head(calls)>> \o UpToDone(Tail(calls))

\* C5: the tool calls of a turn are executed in response order, each appends
\* exactly one Action and gives exactly one on_action notification with that
\* record, in the same order; a call named done sets done and no later call of
\* the turn is executed or recorded.
C5_CallsRecorded ==
    Responded =>
       /\ Len(TurnActions) = Len(UpToDone(_parse_tool_calls(LastResponse)))
       /\ \A i \in DOMAIN TurnActions :
             /\ TurnActions[i].tool =
                   Get(UpToDone(_parse_tool_calls(LastResponse))[i], "name", JNull)
             /\ TurnActions[i].result # <<>>
       /\ TurnNotes = TurnActions
       /\ last.invoked = Len(TurnActions)
       /\ (\E i \in DOMAIN TurnActions : TurnActions[i].tool = JStr(S_done)) => done

\* C6: a turn in which a tool call is extracted appends, after the assistant
\* message, exactly one user message with the tool results, holding one
\* "name: result" entry per call executed in the turn, in execution order.
C6_ToolResultsMessage ==
    (Responded /\ _parse_tool_calls(LastResponse) # <<>>) =>
       /\ Len(TurnMessages) >= 2
       /\ TurnMessages[1] = AssistantMessage(LastResponse)
       /\ TurnMessages[2].kind = "tool_results"
       /\ TurnMessages[2].content =
             S_Tool_results \o
             Join(S_nl, [i \in DOMAIN TurnActions |->
                            Format(TurnActions[i].tool) \o <<":", " ">>
                               \o TurnActions[i].result])
       /\ Cardinality({i \in DOMAIN TurnMessages :
                          TurnMessages[i].kind = "tool_results"}) = 1

\* C7: the in-loop lint runs in a turn exactly when the turn did not set done
\* and held an edit_file call with a non-empty path; it runs on exactly those
\* paths; a user message with the lint output is appended exactly when that
\* lint returns ok=false.
C7_LoopLint ==
    Responded =>
       /\ last.lint_called <=>
             (~done /\ edited_paths(_parse_tool_calls(LastResponse)) # <<>>)
       /\ last.lint_called =>
             last.lint_paths = edited_paths(_parse_tool_calls(LastResponse))
       /\ (\E i \in DOMAIN TurnMessages : TurnMessages[i].kind = "lint_failed")
             <=> last.lint_ok = "failed"

\* the git operations of the log
GitOps == {"has_changes", "create_branch", "stage_and_commit", "push"}
LogHas(op) == \E i \in DOMAIN log : log[i].op = op
ChangesSeen ==
    \E i \in DOMAIN log : log[i].op = "has_changes" /\ log[i].result = "changes"

\* C8: create_branch, stage_and_commit and push run only when done is true and
\* has_changes returned true; a run that never sets done returns with
\* done=false and branch_name=None without any git operation, has_changes
\* included.
C8_GitGate ==
    /\ (LogHas("create_branch") \/ LogHas("stage_and_commit") \/ LogHas("push"))
          => (done /\ ChangesSeen)
    /\ pc \in {"create_branch", "commit", "post_lint", "push", "pr"}
          => (done /\ ChangesSeen)
    /\ ~done => (branch_name = <<>> /\ \A i \in DOMAIN log : log[i].op \notin GitOps)
    /\ ~ChangesSeen => branch_name = <<>>

\* a run that edited a file, never set done in 20 turns, and returned
C8_Witness ==
    /\ pc = "returned"
    /\ ~done
    /\ turn = max_turns
    /\ actions # <<>>
    /\ branch_name = <<>>

\* the entries of the log that the git and pull-request phases wrote
IsPhaseEntry(e) == e.op # "lint" \/ e.where = "post_commit"
PhaseLog == SelectSeq(log, IsPhaseEntry)
PhaseOrder ==
    <<"has_changes", "create_branch", "stage_and_commit", "lint", "push", "_create_pr">>
\* the paths of the run's edit_file actions
EditPathsOf(acts) ==
    {acts[i].params.d["path"].v :
        i \in {j \in DOMAIN acts :
                  /\ acts[j].tool = JStr(S_edit_file)
                  /\ "path" \in DOMAIN acts[j].params.d
                  /\ Truthy(acts[j].params.d["path"])}}

\* C9: the git phase runs create_branch, stage_and_commit, the post-commit lint
\* over the paths of all edit_file actions of the run, and push, in that order;
\* push follows whether the post-commit lint returned ok=true or ok=false.
C9_GitOrder ==
    /\ Len(PhaseLog) <= Len(PhaseOrder)
    /\ \A i \in DOMAIN PhaseLog :
          /\ PhaseLog[i].op = PhaseOrder[i]
          /\ i < Len(PhaseLog) => PhaseLog[i].result \in {"changes", "ok", "failed"}
    /\ Len(PhaseLog) >= 4 =>
          /\ {PhaseLog[4].paths[k] : k \in DOMAIN PhaseLog[4].paths}
                = EditPathsOf(actions)
          /\ Len(PhaseLog[4].paths) = Cardinality(EditPathsOf(actions))
          /\ PhaseLog[4].given = (EditPathsOf(actions) # {})
    /\ (Len(PhaseLog) = 4 /\ PhaseLog[4].result \in {"ok", "failed"}) => pc = "push"
    /\ (Len(PhaseLog) = 4 /\ PhaseLog[4].result = "raised") => pc = "raised"

\* a push that followed a failed post-commit lint over an edited file
C9_Witness ==
    /\ Len(PhaseLog) >= 5
    /\ PhaseLog[4].result = "failed"
    /\ PhaseLog[4].paths # <<>>
    /\ PhaseLog[5].op = "push"
    /\ PhaseLog[5].result = "ok"

Committed ==
    \E i \in DOMAIN log : log[i].op = "stage_and_commit" /\ log[i].result = "ok"
PostLintFailed ==
    \E i \in DOMAIN log :
        log[i].op = "lint" /\ log[i].where = "post_commit" /\ log[i].result = "failed"

\* C10: ci_round is 0 until stage_and_commit has completed; after a commit it
\* is 1 exactly when the post-commit lint returned ok=false; it never decreases
\* and never exceeds 1.
C10_CiRound ==
    /\ [](/\ ci_round \in {0, 1}
          /\ ~Committed => ci_round = 0
          /\ ci_round = 1 <=> PostLintFailed)
    /\ [][ci_round' >= ci_round]_vars

\* a returned run whose post-commit lint failed
C10_Witness ==
    pc = "returned" /\ ci_round = 1 /\ Committed /\ LogHas("push")

\* the calls of _create_pr in the log, and the create_pr records of the run
PrCalls == {i \in DOMAIN log : log[i].op = "_create_pr"}
\* the records the pull-request phase wrote (orchestrator.py:203-204): a tool
\* and a result, no params
IsPrRecord(a) == a.tool = JStr(S_create_pr) /\ "params" \notin DOMAIN a
PrActions == {i \in DOMAIN actions : IsPrRecord(actions[i])}
PrNotes == {i \in DOMAIN notified : IsPrRecord(notified[i])}
OpOk(op) == \E i \in DOMAIN log : log[i].op = op /\ log[i].result = "ok"

\* C11: the pull request is attempted only when create_pr_after is true and
\* create_branch, stage_and_commit and push completed; a URL gives exactly one
\* create_pr action with that URL as result and one on_action notification
\* with it; none gives no action.
C11_PrPhase ==
    /\ Cardinality(PrCalls) <= 1
    /\ (PrCalls # {} \/ pc = "pr") =>
          /\ create_pr_after
          /\ OpOk("create_branch") /\ OpOk("stage_and_commit") /\ OpOk("push")
    /\ \A i \in PrCalls :
          IF log[i].result = "url" /\ log[i].url # <<>>
          THEN /\ Cardinality(PrActions) = 1
               /\ Cardinality(PrNotes) = 1
               /\ actions[Len(actions)] =
                     [tool |-> JStr(S_create_pr), result |-> log[i].url]
               /\ notified[Len(notified)] = actions[Len(actions)]
               /\ pr_url = log[i].url
          ELSE PrActions = {} /\ PrNotes = {} /\ pr_url = <<>>
    /\ PrCalls = {} => (PrActions = {} /\ PrNotes = {} /\ pr_url = <<>>)

\* a pull request made by the CLI creator after edits, recorded as the last
\* action of the run
C11_Witness ==
    /\ pc = "returned"
    /\ Len(actions) >= 2
    /\ PrActions = {Len(actions)}
    /\ actions[Len(actions)].result = pr_url
    /\ pr_url # <<>>

\* C12: with a token, when the hosted-API attempt raises and the CLI creator
\* succeeds, _create_pr returns the URL the CLI reported and nothing is raised.
C12_ApiFallback ==
    \A i \in PrCalls :
        (/\ github_token # <<>>
         /\ log[i].env.api = "raise"
         /\ log[i].env.cli = "ok") =>
           /\ log[i].api = "raise"
           /\ log[i].cli = "ok"
           /\ log[i].result = "url"
           /\ log[i].url = S_url_cli
           /\ pr_url = S_url_cli
           /\ pc = "returned"

\* the API attempt raised and the run returned with the CLI's URL
C12_Witness ==
    /\ pc = "returned"
    /\ github_token # <<>>
    /\ \E i \in PrCalls : log[i].api = "raise" /\ log[i].cli = "ok"
    /\ pr_url = S_url_cli

\* C13: _create_pr with the CLI creator never raises, whatever the API attempt
\* and the gh subprocess do (success, non-zero exit, binary absent, timeout,
\* another OS error); when both paths fail it returns none.
C13_PrNeverRaises ==
    \A i \in PrCalls :
        /\ log[i].result # "raised"
        /\ (log[i].api # "ok" /\ log[i].env.cli \notin {"ok", "ok_empty"})
              => log[i].result = "none"

\* C14: executing any extracted tool call, whatever its name and whatever JSON
\* values its parameters hold, returns a string and never raises, so the agent
\* loop is not aborted by model output.
C14_ToolsNeverRaise ==
    Responded =>
       /\ last.invoked = Len(TurnActions)
       /\ ~(last.exit = "raised" /\ ~last.lint_called)

\* the one tool call of a response that holds exactly one fenced block
OnlyCall == _parse_tool_calls(LastResponse)[1]
OneCall ==
    Len(LastResponse.blocks) = 1 /\ Len(_parse_tool_calls(LastResponse)) = 1

\* C15: a response with exactly one well-formed edit_file block with a path
\* records exactly one Action with tool edit_file whose result begins with
\* "Wrote " or "Error: ", also for content that opens with a diff header,
\* whether the patch succeeds or fails.
C15_EditResult ==
    (/\ Responded
     /\ OneCall
     /\ IsEdit(OnlyCall)
     /\ IsStr(PathOf(OnlyCall))
     /\ PathOf(OnlyCall).v # <<>>)
    => /\ Len(TurnActions) = 1
       /\ TurnActions[1].tool = JStr(S_edit_file)
       /\ \/ StartsWith(TurnActions[1].result, S_Wrote)
          \/ StartsWith(TurnActions[1].result, S_Error)

\* the call is run_shell with a command "exit c" for a digit c
IsSilentExit(tc) ==
    /\ Get(tc, "name", JNull) = JStr(S_run_shell)
    /\ IsDict(Get(tc, "parameters", tc))
    /\ IsStr(Get(Get(tc, "parameters", tc), "command", JNull))
    /\ \E k \in DOMAIN Digits :
          Get(Get(tc, "parameters", tc), "command", JNull).v = S_exit \o <<Digits[k]>>
\* no call of the sequence edits, reads, ends the task or has malformed parameters
NoEditNoDone(calls) ==
    \A i \in DOMAIN calls :
        /\ Get(calls[i], "name", JNull)
              \notin {JStr(S_edit_file), JStr(S_read_file), JStr(S_done)}
        /\ IsDict(Get(calls[i], "parameters", calls[i]))

\* C16: run_shell with a command that exits with code c and prints nothing
\* gives the result "exit c"; a non-zero exit code or a timeout does not
\* raise: the result is recorded as an Action and the loop goes on to the next
\* turn.
C16_ShellExit ==
    (/\ Responded
     /\ _parse_tool_calls(LastResponse) # <<>>
     /\ IsSilentExit(_parse_tool_calls(LastResponse)[1])
     /\ NoEditNoDone(_parse_tool_calls(LastResponse)))
    => /\ Len(TurnActions) = Len(_parse_tool_calls(LastResponse))
       /\ TurnActions[1].tool = JStr(S_run_shell)
       /\ \/ TurnActions[1].result = TurnActions[1].params.d["command"].v
          \/ TurnActions[1].result = S_Error \o S_TimeoutExpired
       /\ last.exit = "continue"
       /\ ~done
       /\ pc = IF last.turn < max_turns THEN "loop" ELSE "git"

\* "exit 1" ran, gave "exit 1", and the loop went on
C16_Witness ==
    /\ pc = "loop"
    /\ last.exit = "continue"
    /\ TurnActions # <<>>
    /\ TurnActions[1].tool = JStr(S_run_shell)
    /\ TurnActions[1].params.d["command"].v = S_exit_1
    /\ TurnActions[1].result = S_exit_1

\* action i wrote its content to its path; action j read a path and did not
\* fail; the path an action names, as the tools use it
WroteFile(i) ==
    actions[i].tool = JStr(S_edit_file) /\ StartsWith(actions[i].result, S_Wrote)
ChangedFile(i) ==
    /\ actions[i].tool = JStr(S_edit_file)
    /\ StartsWith(actions[i].result, S_Wrote)
          \/ StartsWith(actions[i].result, S_Applied_diff)
ReadFile(j) ==
    actions[j].tool = JStr(S_read_file) /\ ~StartsWith(actions[j].result, S_Error)
ToolPath(i) == Strip(actions[i].params.d["path"].v)

\* C17: an edit_file call that writes content to a path, followed in a later
\* turn by a read_file call on the same path with no write to it in between,
\* makes the read return the written content cut to its first 20,000
\* characters.
C17_RoundTrip ==
    \A i, j \in DOMAIN actions :
        (/\ i < j
         /\ WroteFile(i)
         /\ ReadFile(j)
         /\ ToolPath(i) = ToolPath(j)
         /\ \A k \in (i + 1)..(j - 1) : ChangedFile(k) => ToolPath(k) # ToolPath(i))
        => actions[j].result = Prefix(actions[i].params.d["content"].v, ReadCap)

\* what the provider p did in the latest complete call
ProviderDid(p) ==
    IF p = "anthropic" THEN llm.env.anthropic
    ELSE IF p = "openai" THEN llm.env.openai
    ELSE Fails("ValueError")
FallbackConfigured ==
    llm_config.fallback_provider # "" /\ llm_config.fallback_model # ""
PrimaryDid == ProviderDid(llm_config.provider)
FallbackDid == ProviderDid(llm_config.fallback_provider)

\* C18: a complete call asks the primary provider first, and the fallback
\* provider only if the primary raised and both fallback_provider and
\* fallback_model are configured; it returns the text of the first provider
\* that answers, which is the response the turn works on; if every provider of
\* the chain raises, it raises the error of the last one asked and the run
\* ends with that exception.
C18_FallbackChain ==
    llm.out.tried # <<>> =>
        /\ llm.out.tried[1] = llm_config.provider
        /\ Len(llm.out.tried) <= 2
        /\ Len(llm.out.tried) = 2 <=> (~PrimaryDid.ok /\ FallbackConfigured)
        /\ Len(llm.out.tried) = 2 => llm.out.tried[2] = llm_config.fallback_provider
        /\ PrimaryDid.ok => ~llm.out.raised /\ llm.out.text = PrimaryDid.text
        /\ (~PrimaryDid.ok /\ FallbackConfigured /\ FallbackDid.ok)
              => ~llm.out.raised /\ llm.out.text = FallbackDid.text
        /\ (~PrimaryDid.ok /\ ~FallbackConfigured)
              => /\ llm.out.raised /\ llm.out.error = PrimaryDid.error
                 /\ pc = "raised" /\ last.exit = "llm_raised"
        /\ (~PrimaryDid.ok /\ FallbackConfigured /\ ~FallbackDid.ok)
              => /\ llm.out.raised /\ llm.out.error = FallbackDid.error
                 /\ pc = "raised" /\ last.exit = "llm_raised"
        /\ ~llm.out.raised
              => <<messages[last.msgs_before + 1].response>> = llm.out.text

\* the primary provider raised, the fallback provider was asked and raised
\* too, and the run ended with the fallback provider's error
C18_Witness ==
    /\ llm.out.tried = <<"anthropic", "openai">>
    /\ llm.out.raised
    /\ llm.out.error = "RateLimitError"
    /\ pc = "raised"

\* the providers of the chain of the latest stream call, and what each did
StreamChain ==
    <<unit.config.provider>> \o
        (IF unit.config.fallback_provider # "" /\ unit.config.fallback_model # ""
         THEN <<unit.config.fallback_provider>> ELSE <<>>)
StreamDid(p) == IF p = "anthropic" THEN unit.env.anthropic ELSE unit.env.openai
EveryProviderFailed ==
    \A k \in DOMAIN StreamChain :
        StreamChain[k] \in {"anthropic", "openai"} /\ StreamDid(StreamChain[k]).error # "none"

\* C19: when every provider of the chain of a stream call fails, the call
\* raises the exception of the last provider that failed.
C19_StreamLastError ==
    (unit.fn = "stream" /\ EveryProviderFailed)
        => /\ unit.out.raised
           /\ unit.out.error = StreamDid(StreamChain[Len(StreamChain)]).error

\* the latest call of the git facade ran a command that exited non-zero
GitCommandFailed ==
    \E k \in 1..unit.out.ran : unit.exits[k] # 0

\* C20: an operation of the git facade raises when its git command exits
\* non-zero, except status and diff, which never raise.
C20_GitRaises ==
    unit.fn = "git"
        => IF unit.op \in {"status", "diff"}
           THEN ~unit.out.raised
           ELSE unit.out.raised <=> GitCommandFailed

\* the part of C20 that is about the operations other than status and diff
GitOthersRaise ==
    (unit.fn = "git" /\ unit.op \notin {"status", "diff"})
        => (unit.out.raised <=> GitCommandFailed)

\* the part of C19 that holds: a stream call whose providers all fail raises
StreamRaises ==
    (unit.fn = "stream" /\ EveryProviderFailed) => unit.out.raised

\* the paths the latest call of the lint facade was to work on: those given, or
\* the staged ones
LintInput == IF unit.given THEN unit.paths ELSE unit.env.files
InPyBucket(p) == EndsWith(p, <<".", "p", "y">>)
InJsBucket(p) ==
    \E e \in {<<".", "j", "s">>, <<".", "t", "s">>, <<".", "t", "s", "x">>} : EndsWith(p, e)
\* the linter was invoked, and the files handed to it
LinterRan(linter) == \E k \in DOMAIN unit.out.ran : unit.out.ran[k].linter = linter
LinterFiles(linter) ==
    LET k == CHOOSE j \in DOMAIN unit.out.ran : unit.out.ran[j].linter = linter
    IN  unit.out.ran[k].files
\* a call of the lint facade without paths for which git listed the staged files
StagedLintCall ==
    unit.fn = "lint" /\ ~unit.given /\ unit.env.staged = "files"

\* C21: called without paths, run_relevant_linters lints the staged files, and
\* when none is staged the applicable linters are run over the whole tree.
C21_StagedOrTree ==
    (StagedLintCall /\ ~unit.out.raised) =>
        IF unit.env.files # <<>>
        THEN /\ LinterRan("ruff") <=> SelectSeq(unit.env.files, InPyBucket) # <<>>
             /\ LinterRan("eslint") <=> SelectSeq(unit.env.files, InJsBucket) # <<>>
        ELSE unit.out.ran # <<>>

\* the part of C21 that holds: staged files are linted by their extensions
StagedLinted ==
    (StagedLintCall /\ ~unit.out.raised /\ unit.env.files # <<>>) =>
        /\ LinterRan("ruff") <=> SelectSeq(unit.env.files, InPyBucket) # <<>>
        /\ LinterRan("eslint") <=> SelectSeq(unit.env.files, InJsBucket) # <<>>

\* C22: run_relevant_linters runs a linter only if its extension bucket is not
\* empty, handing it that bucket; it returns ok=false if and only if a linter
\* that ran exited non-zero; a linter that is missing or times out counts as a
\* pass and contributes no output.
C22_LintVerdict ==
    (unit.fn = "lint" /\ ~unit.out.raised) =>
        /\ LinterRan("ruff") <=> SelectSeq(LintInput, InPyBucket) # <<>>
        /\ LinterRan("eslint") <=> SelectSeq(LintInput, InJsBucket) # <<>>
        /\ LinterRan("ruff") => LinterFiles("ruff") = SelectSeq(LintInput, InPyBucket)
        /\ LinterRan("eslint") => LinterFiles("eslint") = SelectSeq(LintInput, InJsBucket)
        /\ ~unit.out.ok <=> \/ LinterRan("ruff") /\ unit.env.ruff = "fail"
                            \/ LinterRan("eslint") /\ unit.env.eslint = "fail"
        /\ (LinterRan("ruff") /\ unit.env.ruff \in {"missing", "timeout"})
              => ~Contains(unit.out.output, S_ruff_hdr)
        /\ (LinterRan("eslint") /\ unit.env.eslint \in {"missing", "timeout"})
              => ~Contains(unit.out.output, S_eslint_hdr)

\* ruff is missing and eslint fails on a .py and a .tsx file: ok=false, with
\* eslint's output only
C22_Witness ==
    /\ unit.fn = "lint"
    /\ unit.given
    /\ unit.paths = <<S_a_py, S_c_tsx>>
    /\ unit.env.ruff = "missing"
    /\ unit.env.eslint = "fail"
    /\ ~unit.out.raised
    /\ ~unit.out.ok
    /\ unit.out.output = S_eslint_hdr \o S_E501

\* C23: no failure inside the lint facade (a linter exiting non-zero, a missing
\* binary, a timeout, a failure or timeout of the staged-files query)
\* propagates as an exception out of run, from the lint of the loop or from the
\* lint after the commit: a lint call of a run raises only for another error
\* of a linter subprocess.
C23_LintContained ==
    \A i \in DOMAIN log :
        (log[i].op = "lint" /\ log[i].result = "raised") => log[i].cause = "linter"

\* a git command of the git phase that failed
GitFailed(e) ==
    /\ e.op \in {"has_changes", "create_branch", "stage_and_commit", "push"}
    /\ e.result \in {"raise", "raised"}

\* C24: when a git command of the git phase fails, run ends with an exception
\* and nothing is executed after it: no commit, lint, push or pull-request
\* creation follows, and no pull-request phase is announced.
C24_GitFailureIsFatal ==
    \A i \in DOMAIN log :
        GitFailed(log[i]) =>
            /\ i = Len(log)
            /\ pc = "raised"
            /\ pr_url = <<>>
            /\ \A k \in DOMAIN phases : phases[k] # "pull request"

\* a run asked to open a pull request whose push failed
C24_Witness ==
    /\ create_pr_after
    /\ log # <<>>
    /\ log[Len(log)].op = "push"
    /\ log[Len(log)].result = "raised"
    /\ pc = "raised"

\* C25: the branch slug derived from a task matches ^[a-z0-9-]{1,30}$ and has
\* no leading and no trailing "-".
C25_SlugShape ==
    unit.fn = "slug" =>
        /\ Len(unit.out) \in 1..30
        /\ \A i \in DOMAIN unit.out : unit.out[i] \in SlugChars
        /\ unit.out[1] # "-"
        /\ unit.out[Len(unit.out)] # "-"

\* the part of C25 that holds: at most 30 characters of [a-z0-9-], the first
\* of them not "-"
SlugBounded ==
    unit.fn = "slug" =>
        /\ Len(unit.out) <= 30
        /\ \A i \in DOMAIN unit.out : unit.out[i] \in SlugChars
        /\ unit.out # <<>> => unit.out[1] # "-"

\* the runs r1 and r2 work on the same checkout
SameCheckout(r1, r2) == host.runs[r1].repo = host.runs[r2].repo

\* C26: the hosting layers never have two runs active at the same time on the
\* same working copy, and the git phase of a run never commits file edits made
\* by another run that is still running.
C26_RunsIsolated ==
    /\ \A r1, r2 \in ActiveRuns : r1 # r2 => ~SameCheckout(r1, r2)
    /\ \A c \in DOMAIN host.commits :
          \A e \in host.commits[c].edits :
              e.by # host.commits[c].by => e.by \notin host.commits[c].active

\* the second part of C26 alone
CommitsOwnEdits ==
    \A c \in DOMAIN host.commits :
        \A e \in host.commits[c].edits :
            e.by # host.commits[c].by => e.by \notin host.commits[c].active

\* the record has the fields tool, params and result, the result a string
IsAction(a) ==
    /\ DOMAIN a = {"tool", "params", "result"}
    /\ a.result \in Seq(STRING)

\* C27: every record of RunState.actions of a returned run, the create_pr
\* record included, has the fields tool, params and result, and its result is
\* a string.
C27_ActionShape ==
    pc = "returned" => \A i \in DOMAIN actions : IsAction(actions[i])

\* the part of C27 that holds: the records of the executed tool calls
ToolActionsShaped ==
    \A i \in DOMAIN actions :
        actions[i].tool # JStr(S_create_pr) => IsAction(actions[i])

\* the post-commit verification failed at entry i of the log
VerificationFailedAt(i) ==
    log[i].op = "lint" /\ log[i].where = "post_commit" /\ log[i].result = "failed"

\* C28: after the push the orchestrator runs CI for at most 2 rounds, and a
\* failure is fed back to the agent for one retry: a run that returns with a
\* round counted had a model turn begin after the failure, with the failure
\* among its messages.
C28_CiRetry ==
    /\ ci_round <= 2
    /\ (pc = "returned" /\ ci_round >= 1) =>
          \E i \in DOMAIN log :
              /\ VerificationFailedAt(i)
              /\ last.log_before >= i
              /\ messages[Len(messages)].role = "user"
              /\ messages[Len(messages)].kind = "lint_failed"

\* the part of C28 that holds: at most 2 rounds are counted (at most 1, even)
CiRoundsBounded == ci_round <= 1

\* the block is fenced as a tool-call payload, as JSON or without a tag, and its
\* content decodes to an object with a name key
IsCallBlock(b) ==
    /\ b.tag \in {S_minion_tool, S_json, <<>>}
    /\ b.body.t # "malformed"
    /\ IsDict(b.body)
    /\ "name" \in DOMAIN b.body.d
\* the values of the blocks of the response that are tool calls, in order
CallBlocks(response) ==
    [i \in 1..Len(SelectSeq(response.blocks, IsCallBlock)) |->
        SelectSeq(response.blocks, IsCallBlock)[i].body]

\* C29: tool-call extraction returns, in order of appearance, exactly the
\* fenced blocks whose content decodes to a JSON object with a name key; a
\* block that does not decode, decodes to something else or lacks name is
\* skipped without effect on the other blocks.
C29_Extraction ==
    unit.fn = "parse" => unit.out = CallBlocks(unit.response)

\* the part of C29 that holds: when every block that opens with "{" ends with
\* "}", the blocks are taken one by one
ClosedBlocksExtracted ==
    (unit.fn = "parse" /\ \A i \in DOMAIN unit.response.blocks :
                             FenceOpens(unit.response.blocks[i])
                                => FenceCloses(unit.response.blocks[i]))
        => unit.out = CallBlocks(unit.response)

\* the names of the tools of the agent loop, as JSON strings
KnownTools == {JStr(S_edit_file), JStr(S_read_file), JStr(S_run_shell), JStr(S_done)}

\* C30: a fenced block whose name is none of edit_file, read_file, run_shell
\* and done is not a tool call: no record of RunState.actions carries such a
\* name (the create_pr record is written by the pull-request phase, not by a
\* block).
C30_UnknownRejected ==
    \A i \in DOMAIN actions :
        actions[i].tool \in KnownTools \/ i \in PrActions

\* the part of C30 that holds: a call with an unknown name reaches no tool, its
\* result is the text "Unknown tool: <name>"
UnknownToolsInert ==
    \A i \in DOMAIN actions :
        (actions[i].tool \notin KnownTools /\ i \notin PrActions)
            => actions[i].result = S_Unknown_tool \o Format(actions[i].tool)

\* s without its leading characters outside [a-z0-9-]
RECURSIVE DropOthers(_)
DropOthers(s) ==
    IF s # <<>> /\ Head(s) \notin SlugChars THEN DropOthers(Tail(s)) ELSE s

\* s with every maximal run of characters outside [a-z0-9-] replaced by one "-"
RECURSIVE Collapsed(_)
Collapsed(s) ==
    IF s = <<>> THEN <<>>
    ELSE IF Head(s) \in SlugChars THEN <<Head(s)>> \o Collapsed(Tail(s))
    ELSE <<"-">> \o Collapsed(DropOthers(s))

\* two characters outside [a-z0-9-] stand side by side in s
HasRun(s) ==
    \E i \in 1..(Len(s) - 1) : s[i] \notin SlugChars /\ s[i + 1] \notin SlugChars

\* C31: in the slug every maximal run of characters outside [a-z0-9-] of the
\* lowercased first 40 characters of the task is collapsed to a single "-".
C31_RunsCollapsed ==
    unit.fn = "slug" =>
        unit.out = Prefix(RStripDash(LStripDash(
                        Collapsed(Lower(Prefix(unit.task, 40))))), 30)

\* the part of C31 that holds: a task without such a run of two or more
SingleSeparators ==
    (unit.fn = "slug" /\ ~HasRun(Lower(Prefix(unit.task, 40)))) =>
        unit.out = Prefix(RStripDash(LStripDash(
                        Collapsed(Lower(Prefix(unit.task, 40))))), 30)

\* C32 as stated: every call of _create_pr invokes the CLI-backed creator,
\* whatever the hosted-API attempt did, also when that attempt returned a URL.
C32_CliAlways ==
    \A i \in PrCalls : log[i].cli # "skipped"

\* C32, amended: _create_pr invokes the CLI-backed creator exactly when the
\* hosted-API attempt did not return a URL (no token, no remote URL, or an
\* exception); when the API attempt returned a URL that URL is the result and
\* the CLI creator is not invoked.
C32_CliIsFallback ==
    \A i \in PrCalls :
        /\ log[i].cli = "skipped" <=> (github_token # <<>> /\ log[i].env.api = "ok")
        /\ (github_token # <<>> /\ log[i].env.api = "ok") =>
              log[i].result = "url" /\ log[i].url = S_url_api

\* the API attempt returned a URL and the run returned with it, the CLI
\* creator not invoked
C32_Witness ==
    /\ pc = "returned"
    /\ pr_url = S_url_api
    /\ \E i \in PrCalls : log[i].env.api = "ok" /\ log[i].cli = "skipped"

\* the fragments the provider p of the latest stream call yields when asked; a
\* provider that is neither anthropic nor openai is not asked
ChunksOf(p) == IF p \in {"anthropic", "openai"} THEN StreamDid(p).chunks ELSE <<>>

\* the fragments handed to the caller are those of one provider of the chain
FromOneProvider ==
    \E k \in DOMAIN StreamChain : unit.out.chunks = ChunksOf(StreamChain[k])

\* a provider of the chain other than the last one raises after it has yielded
\* a fragment
BreaksMidStream ==
    \E k \in 1..(Len(StreamChain) - 1) :
        /\ StreamChain[k] \in {"anthropic", "openai"}
        /\ StreamDid(StreamChain[k]).error # "none"
        /\ StreamDid(StreamChain[k]).chunks # <<>>

\* C33: all text fragments yielded by one stream call come from a single
\* provider; the fragments of a primary provider that failed midway are not
\* followed by those of the fallback provider.
C33_OneProvider ==
    unit.fn = "stream" => FromOneProvider

\* the part of C33 that holds: the fragments come from one provider when no
\* provider before the last raises after having yielded
OneProviderUnlessMidStream ==
    (unit.fn = "stream" /\ ~BreaksMidStream) => FromOneProvider

\* a is an initial segment of b
IsPrefixOf(a, b) == Len(a) <= Len(b) /\ SubSeq(b, 1, Len(a)) = a

\* the conversation as a completion request may find it: the task message
\* first, a user message last, a user message somewhere after every assistant
\* message
Requestable(msgs, t) ==
    /\ msgs # <<>>
    /\ msgs[1] = TaskMessage(t)
    /\ msgs[Len(msgs)].role = "user"
    /\ \A i \in DOMAIN msgs :
          msgs[i].role = "assistant" =>
              \E j \in (i + 1)..Len(msgs) : msgs[j].role = "user"

\* C34: RunState.messages is append-only during a run; at every completion
\* request its first entry is the user task message and its last entry is a
\* user message, and every assistant message is followed by a user message
\* before the next completion request.
C34_Messages ==
    [][/\ IsPrefixOf(messages, messages')
       /\ llm_calls' # llm_calls => Requestable(messages, task)]_vars

\* a second completion was requested on a conversation in which the first
\* response is followed by the tool results and by the linter's findings
C34_Witness ==
    /\ llm_calls >= 2
    /\ Len(messages) >= 5
    /\ messages[2].role = "assistant"
    /\ messages[3].kind = "tool_results"
    /\ messages[4].kind = "lint_failed"
    /\ messages[5].role = "assistant"

\* the phases of a run in the order of the code
PhaseNames == <<"context hydration", "agent loop", "git", "pull request">>
Emitted(p) == \E k \in DOMAIN phases : phases[k] = p

\* C35: the on_phase notifications of a run occur in the order context
\* hydration, agent loop, git, pull request, each at most once; git is emitted
\* only when the git phase runs (done, and the tree has changes), pull request
\* only after a successful push with create_pr_after true.
C35_PhaseOrder ==
    /\ IsPrefixOf(phases, PhaseNames)
    /\ Emitted("git") <=>
          (done /\ \E i \in DOMAIN log :
                      log[i].op = "has_changes" /\ log[i].result = "changes")
    /\ Emitted("pull request") => create_pr_after /\ OpOk("push")

\* a run that went through all four phases and returned
C35_Witness ==
    /\ pc = "returned"
    /\ phases = PhaseNames

\* the records of RunState.actions whose tool is create_pr
CreatePrRecords == {i \in DOMAIN actions : actions[i].tool = JStr(S_create_pr)}

\* C36: in every RunState returned by run, pr_url is set if and only if
\* actions holds a create_pr record; there is at most one such record, it is
\* the last element of actions and its result is pr_url.
C36_PrRecord ==
    pc = "returned" =>
        /\ pr_url # <<>> <=> CreatePrRecords # {}
        /\ CreatePrRecords # {} =>
              /\ CreatePrRecords = {Len(actions)}
              /\ actions[Len(actions)].result = pr_url

\* the part of C36 that holds: the same of the records the pull-request phase
\* writes
PrPhaseRecord ==
    pc = "returned" =>
        /\ pr_url # <<>> <=> PrActions # {}
        /\ PrActions # {} =>
              /\ PrActions = {Len(actions)}
              /\ actions[Len(actions)].result = pr_url

\* C37: in every reachable state of a run branch_name is set only if done is
\* true, and ci_round or pr_url differ from their initial values only if
\* branch_name is set; in a returned RunState a set branch_name means that
\* commit and push both completed.
C37_BranchImplies ==
    /\ branch_name # <<>> => done
    /\ (ci_round # 0 \/ pr_url # <<>>) => branch_name # <<>>
    /\ (pc = "returned" /\ branch_name # <<>>) =>
          OpOk("stage_and_commit") /\ OpOk("push")

\* a returned run with a branch, a failed post-commit lint and a pull request
C37_Witness ==
    /\ pc = "returned"
    /\ branch_name # <<>>
    /\ ci_round = 1
    /\ pr_url # <<>>

\* the runs started through the web API
ApiRuns == {r \in DOMAIN host.runs : host.runs[r].origin = "api"}

\* the registry entry of an API run in a state: running until the run has
\* ended, written once by then with the status of the run's outcome, the error
\* recorded exactly for a run that raised
EntryFollowsRun(run) ==
    IF run.at # "ended"
    THEN run.status = "running" /\ ~run.error /\ run.writes = 0
    ELSE /\ run.writes = 1
         /\ run.outcome = "done" => run.status = "completed" /\ ~run.error
         /\ run.outcome = "not_done" => run.status = "stopped" /\ ~run.error
         /\ run.outcome = "raised" => run.status = "failed" /\ run.error

\* C38: the registry entry of every run started through the web API starts
\* as running and changes exactly once, to completed (the run returned with
\* done), stopped (returned without done) or failed with the error recorded
\* (the run raised); it never changes again, and no step of one run writes the
\* entry of another, whatever the interleaving of runs and requests.
C38_RegistryEntry ==
    /\ [](\A r \in ApiRuns : EntryFollowsRun(host.runs[r]))
    /\ [][\A r \in ApiRuns :
            /\ host.runs[r].status # "running" => host'.runs[r] = host.runs[r]
            /\ host'.runs[r].status # host.runs[r].status =>
                  (host.runs[r].at = "loop" /\ host'.runs[r].at = "ended")]_vars

\* two API runs on one checkout that ended differently, the one started first
\* still running when the other ended
C38_Witness ==
    /\ {1, 2} \subseteq ApiRuns
    /\ host.runs[1].repo = host.runs[2].repo
    /\ host.runs[1].status = "failed"
    /\ host.runs[2].status = "completed"
    /\ \E c \in DOMAIN host.commits :
          host.commits[c].by = 2 /\ 1 \in host.commits[c].active

\* the least number of intervals that cover the timeout
CeilDiv(a, b) == (a + b - 1) \div b

\* what holds of a call of wait_for_checks at every moment: the polls of the
\* loop are bounded, one last query at most follows them, and that only when
\* the loop has polled as often as it may; no sleep is begun once the timeout
\* is reached; no status before the latest is one of success or failure
WaitBounded ==
    /\ unit.polls <= CeilDiv(unit.timeout_seconds, unit.poll_interval)
    /\ unit.finals <= 1
    /\ unit.finals = 1 =>
          unit.polls = CeilDiv(unit.timeout_seconds, unit.poll_interval)
    /\ ~unit.late
    /\ \A k \in 1..(Len(unit.seen) - 1) : unit.seen[k] = "pending"
    /\ unit.at = "returned" =>
          /\ unit.seen # <<>>
          /\ unit.out = unit.seen[Len(unit.seen)]
          /\ (unit.finals = 0 => unit.out \in {"success", "failure"})

\* C39: wait_for_checks with poll_interval > 0 terminates for every sequence
\* of check statuses; it returns the first status that is success or failure,
\* and otherwise returns after at most ceil(timeout_seconds / poll_interval)
\* polls and one last status query, without sleeping again once the timeout
\* is reached.
C39_WaitTerminates ==
    /\ [](unit.fn = "wait" => WaitBounded)
    /\ (unit.fn = "wait") ~> (unit.fn = "wait" /\ unit.at = "returned")

\* a call that saw nothing but pending statuses, slept through its timeout
\* with a last interval that overshoots it, and returned the last query
C39_Witness ==
    /\ unit.fn = "wait"
    /\ unit.at = "returned"
    /\ unit.timeout_seconds = 5
    /\ unit.poll_interval = 2
    /\ unit.polls = 3
    /\ unit.finals = 1
    /\ unit.out = "pending"

====
